---- MODULE Spec2Model ----
(***************************************************************************)
(* A model of the gosuki database, utils and browsers packages:            *)
(*   - the Lamport clock behind the SQL function tick_clock,               *)
(*   - the content hash xhsum,                                             *)
(*   - DB.Init / DB.open / DB.Close and the two registered sqlite drivers, *)
(*   - path expansion and browser detection,                               *)
(*   - the browser definition registry,                                    *)
(*   - the per-source watcher.                                             *)
(* Each subsystem has its own specification over the shared variables.     *)
(***************************************************************************)
EXTENDS Integers, Sequences, FiniteSets, TLC

(***************************************************************************)
(* Bounds of the model.                                                    *)
(***************************************************************************)
\* number of goroutines calling the clock
NumThreads == 2
\* total number of tick calls in one behaviour
MaxTicks == 3
\* largest `previous` a direct caller passes to sqlTickClock
MaxPrev == 1

\* longest url handed to xhsum, in characters
MaxUrlLen == 2
\* longest title and longest description handed to xhsum
MaxTextLen == 1

\* number of sqlite connections opened in one behaviour
MaxConns == 2

\* longest list of browser definitions
MaxDefs == 5

\* reloads one source starts in one behaviour
MaxReloads == 2
\* the debounce delay and the backoff delay, in timer ticks
DebounceTicks == 2
BackoffTicks == 1
\* file-system events one source receives in one behaviour
MaxEvents == 3

\* largest version of a record in a store before the devices sync
MaxVersion == 2

\* upserts of one url, and writes of other rows, in one behaviour
MaxUpserts == 3

\* connections the goroutines open through the backup driver
MaxHooks == 3

\* entries (flavour on a platform) of a browser definition file
MaxEntries == 3

Threads == 1..NumThreads
Urls == {"u1", "u2"}
NoUrl == "none"

Max(a, b) == IF a >= b THEN a ELSE b

SetMax(S) == IF S = {} THEN 0 ELSE CHOOSE x \in S : \A y \in S : y <= x

VARIABLES
    \* ---- Lamport clock (database package) ----
    clock,        \* Clock's internal counter
    tpc,          \* per goroutine: "idle" | "called" | "ticked"
    tprev,        \* per goroutine: the argument of the call in progress
    tret,         \* per goroutine: the value the call in progress got
    turl,         \* per goroutine: the row an upsert is writing, or NoUrl
    tseen,        \* history: largest version observed before the call started
    returned,     \* history: the values finished calls returned
    ticks,        \* number of finished calls
    dupReturn,    \* history: some call returned a value returned before
    lastTick,     \* history: the last execution of sqlTickClock
    version,      \* gskbookmarks.version per url (0: no row)
    writer,       \* the goroutine holding sqlite's write lock, or 0
    \* ---- content hash (database package) ----
    bmA, bmB,     \* the two bookmarks handed to xhsum
    sumA, sumB,   \* what xhsum returned for them (NoSum: not called yet)
    \* ---- DB and the sqlite drivers (database package) ----
    registeredDrivers,  \* the drivers sql.Register has been called for
    db,                 \* per DB object: Handle, Type, EngineMode
    handleLive,         \* per DB object: the state of the sqlx handle
    sqlConns,           \* the open sqlite connections
    sql3BackupConns,    \* _sql3BackupConns: the tracked connections
    nextConn,           \* number of connections opened so far
    initRes,            \* history: the last call of DB.Init
    flushHist,          \* history: connections tracked, handles flushed
    \* ---- path expansion and browser detection (utils, browsers) ----
    osEnv,        \* the process environment: file system, $V, home directory
    brDef,        \* the BrowserDef under examination
    brCall,       \* the last method called on it, with its result
    exCall,       \* the last direct call of ExpandPath or ExpandOnly
    \* ---- browser definition registry (browsers, generated) ----
    DefinedBrowsers,  \* var DefinedBrowsers []BrowserDef
    regHist,          \* history: the last AddBrowserDef and the list before it
    \* ---- per-source watcher ----
    wstate,       \* per source: Idle, Debouncing, Reloading, Backoff, Failed
    wtimer,       \* per source: ticks left on its timer
    parses,       \* per source: parses in flight
    started,      \* per source: reloads started
    finished,     \* per source: reloads completed or failed
    events,       \* per source: file-system events received
    quiet,        \* history: timer ticks since the last event of the burst
    burst,        \* history: the current burst of events and its reloads
    \* ---- merger and URL index ----
    mtree,        \* per source: the tree of its last reload (url -> tags)
    shadow,       \* per source: its contribution as the merger last saw it
    uindex,       \* the global URL Index (url -> tags)
    mqueue,       \* sources whose (source_id, tree) message is in flight
    mbatch,       \* the batch the merger last emitted to the store
    \* ---- sync engine, two devices ----
    sphase,       \* "boot" until the devices have opened their stores
    sstore,       \* per device: url -> record (NoRec: no local record)
    sclock,       \* per device: its Lamport clock
    watermark,    \* per device: the version up to which its peer has its records
    inflight,     \* per device: the sync records on their way to it
    lastImp,      \* history: the last import
    \* ---- upsert of one url into gskbookmarks ----
    urow,         \* the row of the url (NoRow: none)
    uclock,       \* the Lamport clock
    upserts,      \* number of writes so far
    lastUp,       \* history: the last upsert, the row and the clock it found
    \* ---- data directory (utils, database init) ----
    dataEnv,      \* $XDG_DATA_HOME and $HOME of the process
    dataFs,       \* the directory handed to MkDir, as the file system has it
    dataCall,     \* the last call, what it found and what it returned
    \* ---- goroutines opening and flushing backup connections ----
    hookG,        \* per goroutine: the statement on _sql3BackupConns in progress
    hookHist,     \* history: connections opened, connections flushed
    \* ---- browser-definition generator (browsers/gen) ----
    genPhase,     \* "idle", "running" (inside generateBrowserConfs), "done"
    genCfg,       \* cfg: the entries of the parsed configuration
    genTodo,      \* the entries the range loops have not reached yet
    genLast,      \* the entry the innermost loop body ran for last
    bCfgs         \* bCfgs: platform -> list of BrowserDef

clockVars == <<clock, tpc, tprev, tret, turl, tseen, returned, dupReturn, ticks,
               lastTick, version, writer>>

hashVars == <<bmA, bmB, sumA, sumB>>

dbVars == <<registeredDrivers, db, handleLive, sqlConns, sql3BackupConns,
            nextConn, initRes, flushHist>>

brVars == <<osEnv, brDef, brCall, exCall>>

regVars == <<DefinedBrowsers, regHist>>

watchVars == <<wstate, wtimer, parses, started, finished, events, quiet,
               burst>>

mergeVars == <<mtree, shadow, uindex, mqueue, mbatch>>

syncVars == <<sphase, sstore, sclock, watermark, inflight, lastImp>>

upsertVars == <<urow, uclock, upserts, lastUp>>

dataVars == <<dataEnv, dataFs, dataCall>>

hookVars == <<hookG, hookHist>>

genVars == <<genPhase, genCfg, genTodo, genLast, bCfgs>>

vars == <<clockVars, hashVars, dbVars, brVars, regVars, watchVars, mergeVars,
          syncVars, upsertVars, dataVars, hookVars, genVars>>

\* what an action of one subsystem leaves alone
nonClockVars == <<hashVars, dbVars, brVars, regVars, watchVars,
    mergeVars, syncVars, upsertVars, dataVars, hookVars,
    genVars>>
nonHashVars == <<clockVars, dbVars, brVars, regVars, watchVars,
    mergeVars, syncVars, upsertVars, dataVars, hookVars,
    genVars>>
nonDbVars == <<clockVars, hashVars, brVars, regVars, watchVars,
    mergeVars, syncVars, upsertVars, dataVars, hookVars,
    genVars>>
nonBrVars == <<clockVars, hashVars, dbVars, regVars, watchVars,
    mergeVars, syncVars, upsertVars, dataVars, hookVars,
    genVars>>
nonRegVars == <<clockVars, hashVars, dbVars, brVars, watchVars,
    mergeVars, syncVars, upsertVars, dataVars, hookVars,
    genVars>>
nonWatchVars == <<clockVars, hashVars, dbVars, brVars, regVars,
    mergeVars, syncVars, upsertVars, dataVars, hookVars,
    genVars>>
nonMergeVars == <<clockVars, hashVars, dbVars, brVars, regVars, watchVars,
    syncVars, upsertVars, dataVars, hookVars,
    genVars>>
nonSyncVars == <<clockVars, hashVars, dbVars, brVars, regVars, watchVars,
    mergeVars, upsertVars, dataVars, hookVars,
    genVars>>
nonUpsertVars == <<clockVars, hashVars, dbVars, brVars, regVars, watchVars,
    mergeVars, syncVars, dataVars, hookVars,
    genVars>>
nonDataVars == <<clockVars, hashVars, dbVars, brVars, regVars, watchVars,
    mergeVars, syncVars, upsertVars, hookVars,
    genVars>>
\* the goroutines act on _sql3BackupConns and the connection count of dbVars
nonHookVars == <<clockVars, hashVars, brVars, regVars, watchVars, mergeVars,
    syncVars, upsertVars, dataVars,
    genVars>>
nonGenVars == <<clockVars, hashVars, dbVars, brVars, regVars, watchVars,
    mergeVars, syncVars, upsertVars, dataVars, hookVars>>

(***************************************************************************)
(* Lamport clock.  Clock.Tick is not among the sources; it is modelled     *)
(* from section 4.1: max(internal, previous) + 1, stored atomically.       *)
(***************************************************************************)
Tick(internal, previous) ==
    LET v == Max(internal, previous) + 1
    IN  [value |-> v, internal |-> v]

\* a tick_clock that adds one to its argument without consulting the clock
sqlTickClockLocal(internal, previous) ==
    [value |-> previous + 1, internal |-> internal]

\* a tick_clock that drops its argument
sqlTickClockNoArg(internal, previous) == Tick(internal, 0)

\* func sqlTickClock(previous uint64) uint64 { return Clock.Tick(previous) }
sqlTickClock(internal, previous) == Tick(internal, previous)

NoTick == [internal |-> 0, previous |-> 0, value |-> 0, after |-> 0]

ClockInit ==
    /\ clock = 0
    /\ tpc = [t \in Threads |-> "idle"]
    /\ tprev = [t \in Threads |-> 0]
    /\ tret = [t \in Threads |-> 0]
    /\ turl = [t \in Threads |-> NoUrl]
    /\ tseen = [t \in Threads |-> 0]
    /\ returned = {}
    /\ dupReturn = FALSE
    /\ ticks = 0
    /\ lastTick = NoTick
    /\ version = [u \in Urls |-> 0]
    /\ writer = 0

Pending == Cardinality({t \in Threads : tpc[t] # "idle"})

\* the largest version this device has shown so far
Observed == Max(SetMax(returned), SetMax({version[u] : u \in Urls}))

\* a goroutine calls tick_clock(previous) directly
TickCall(t, p) ==
    /\ UNCHANGED nonClockVars
    /\ tpc[t] = "idle"
    /\ ticks + Pending < MaxTicks
    /\ tpc' = [tpc EXCEPT ![t] = "called"]
    /\ tprev' = [tprev EXCEPT ![t] = p]
    /\ turl' = [turl EXCEPT ![t] = NoUrl]
    /\ tseen' = [tseen EXCEPT ![t] = Observed]
    /\ UNCHANGED <<clock, tret, returned, dupReturn, ticks, lastTick, version,
                   writer>>

\* an upsert statement takes the write lock; its trigger will evaluate
\* version = tick_clock(version)
UpsertBegin(t, u) ==
    /\ UNCHANGED nonClockVars
    /\ tpc[t] = "idle"
    /\ writer = 0
    /\ ticks + Pending < MaxTicks
    /\ writer' = t
    /\ tpc' = [tpc EXCEPT ![t] = "called"]
    /\ tprev' = [tprev EXCEPT ![t] = version[u]]
    /\ turl' = [turl EXCEPT ![t] = u]
    /\ tseen' = [tseen EXCEPT ![t] = Observed]
    /\ UNCHANGED <<clock, tret, returned, dupReturn, ticks, lastTick, version>>

\* the body of sqlTickClock: one atomic step of the clock
TickStep(t) ==
    /\ UNCHANGED nonClockVars
    /\ tpc[t] = "called"
    /\ LET r == sqlTickClock(clock, tprev[t])
       IN  /\ clock' = r.internal
           /\ tret' = [tret EXCEPT ![t] = r.value]
           /\ lastTick' = [internal |-> clock, previous |-> tprev[t],
                           value |-> r.value, after |-> r.internal]
    /\ tpc' = [tpc EXCEPT ![t] = "ticked"]
    /\ UNCHANGED <<tprev, turl, tseen, returned, dupReturn, ticks, version,
                   writer>>

\* the call returns; an upsert writes the value to its row and commits.
\* The call's argument and result are locals and end with the call.
TickReturn(t) ==
    /\ UNCHANGED nonClockVars
    /\ tpc[t] = "ticked"
    /\ tpc' = [tpc EXCEPT ![t] = "idle"]
    /\ tprev' = [tprev EXCEPT ![t] = 0]
    /\ tret' = [tret EXCEPT ![t] = 0]
    /\ turl' = [turl EXCEPT ![t] = NoUrl]
    /\ tseen' = [tseen EXCEPT ![t] = 0]
    /\ returned' = returned \cup {tret[t]}
    /\ dupReturn' = (dupReturn \/ tret[t] \in returned)
    /\ ticks' = ticks + 1
    /\ IF turl[t] # NoUrl
       THEN /\ version' = [version EXCEPT ![turl[t]] = tret[t]]
            /\ writer' = 0
       ELSE UNCHANGED <<version, writer>>
    /\ UNCHANGED <<clock, lastTick>>

ClockNext ==
    \/ \E t \in Threads, p \in 0..MaxPrev : TickCall(t, p)
    \/ \E t \in Threads, u \in Urls : UpsertBegin(t, u)
    \/ \E t \in Threads : TickStep(t)
    \/ \E t \in Threads : TickReturn(t)

(***************************************************************************)
(* Content hash.  Strings are sequences of characters.                     *)
(***************************************************************************)
Chars == {"a", "+", ",", "x", "y"}
TextChars == {"a", "+"}
Tags == {"x", "y"}

StrsUpTo(S, n) == UNION {[1..k -> S] : k \in 0..n}

\* tag lists as a caller supplies them: distinct tags in any order
TagLists == {t \in StrsUpTo(Tags, Cardinality(Tags)) :
                \A i, j \in 1..Len(t) : i # j => t[i] # t[j]}

Bookmarks == [url : StrsUpTo(TextChars, MaxUrlLen),
              title : StrsUpTo(TextChars, MaxTextLen),
              tags : TagLists,
              desc : StrsUpTo({"a"}, MaxTextLen)]

\* strings.Join(tags, ","): the tags string of a bookmark, in the given order
RECURSIVE JoinTags(_)
JoinTags(t) ==
    IF t = <<>> THEN <<>>
    ELSE IF Len(t) = 1 THEN <<t[1]>>
    ELSE <<t[1], ",">> \o JoinTags(Tail(t))

CharCode(c) ==
    CASE c = "a" -> 1 [] c = "+" -> 2 [] c = "," -> 3 [] c = "x" -> 4
      [] c = "y" -> 5

\* xxhash.ChecksumString64: a 64-bit checksum of the bytes.  It is taken to
\* be free of collisions on the strings of the model (the positional value
\* of the bytes), which is the most a 64-bit checksum can offer.
RECURSIVE ChecksumString64(_)
ChecksumString64(in) ==
    IF in = <<>> THEN 0
    ELSE CharCode(Head(in)) + (Cardinality(Chars) + 1) * ChecksumString64(Tail(in))

\* fmt.Sprintf("%d", n): the decimal digits of n
RECURSIVE SprintfD(_)
SprintfD(n) ==
    IF n < 10 THEN <<n>> ELSE Append(SprintfD(n \div 10), n % 10)

\* func SQLxxHash(in string) string
SQLxxHash(in) == SprintfD(ChecksumString64(in))

\* the input string xhsum builds: fmt.Sprintf("%s+%s+%s+%s", ...)
XhsumInput(url, metadata, tags, desc) ==
    url \o <<"+">> \o metadata \o <<"+">> \o tags \o <<"+">> \o desc

\* func xhsum(url, metadata, tags, desc string) string
xhsum(url, metadata, tags, desc) ==
    SQLxxHash(XhsumInput(url, metadata, tags, desc))

\* the hash of a bookmark: xhsum over its fields and its tags string
BookmarkSum(bm) == xhsum(bm.url, bm.title, JoinTags(bm.tags), bm.desc)

NoSum == <<"none">>
NoBookmark == [url |-> <<>>, title |-> <<>>, tags |-> <<>>, desc |-> <<>>]

HashInit ==
    /\ bmA = NoBookmark
    /\ bmB = NoBookmark
    /\ sumA = NoSum
    /\ sumB = NoSum

\* xhsum is called for a first bookmark
HashFirst(bm) ==
    /\ UNCHANGED nonHashVars
    /\ sumA = NoSum
    /\ bmA' = bm
    /\ sumA' = BookmarkSum(bm)
    /\ UNCHANGED <<bmB, sumB>>

\* xhsum is called for a second bookmark
HashSecond(bm) ==
    /\ UNCHANGED nonHashVars
    /\ sumA # NoSum
    /\ sumB = NoSum
    /\ bmB' = bm
    /\ sumB' = BookmarkSum(bm)
    /\ UNCHANGED <<bmA, sumA>>

HashNext ==
    \/ \E bm \in Bookmarks : HashFirst(bm)
    \/ \E bm \in Bookmarks : HashSecond(bm)


(***************************************************************************)
(* DB objects, DB.Init, DB.open, DB.Close and the registered drivers.      *)
(***************************************************************************)
DriverDefault == "sqlite3_gosuki"
DriverBackupMode == "sqlite_hook_backup"
Drivers == {DriverDefault, DriverBackupMode}

DBTypeInMemory == "DBTypeInMemory"
DBTypeRegularFile == "DBTypeRegularFile"

\* the functions the default driver's ConnectHook registers, in its order
HookFuncs == <<"fuzzy", "tick_clock", "xhash">>

\* errors: "nil", or
\*   "busy"   a sqlite3.Error whose Code is sqlite3.ErrBusy
\*   "sqlerr" a sqlite3.Error with another code
\*   "err"    an error of another type
ErrVfsLocked == "ErrVfsLocked"
DBError == "DBError"

\* the DB objects of the engine: NewDB(name, "", ...) and NewDB(name, path, ...)
DBNames == {"cache", "disk"}

\* func NewDB: Handle nil, EngineMode DriverDefault, Type from dbPath
NewDB(dbPath) ==
    [Handle |-> "nil",
     Type |-> IF dbPath = "" THEN DBTypeInMemory ELSE DBTypeRegularFile,
     EngineMode |-> DriverDefault]

NoInit == [called |-> FALSE]

\* no connection tracked, no handle flushed, no flush has panicked
NoFlush == [tracked |-> {}, flushed |-> {}, panic |-> FALSE]

DbInit ==
    /\ registeredDrivers = {}
    /\ db = [n \in DBNames |-> NewDB(IF n = "cache" THEN "" ELSE "gosuki.db")]
    /\ handleLive = [n \in DBNames |-> "none"]
    /\ sqlConns = {}
    /\ sql3BackupConns = <<>>
    /\ nextConn = 0
    /\ initRes = NoInit
    /\ flushHist = NoFlush

\* func RegisterSqliteHooks: both drivers are registered
RegisterSqliteHooks ==
    /\ registeredDrivers = {}
    /\ registeredDrivers' = Drivers
    /\ UNCHANGED <<db, handleLive, sqlConns, sql3BackupConns, nextConn, initRes, flushHist>>
    /\ UNCHANGED nonDbVars

\* the ConnectHook of a driver on a new connection; failFunc is the function
\* whose RegisterFunc fails ("none": all succeed)
ConnectHook(driver, failFunc) ==
    IF driver = DriverDefault
    THEN LET upto == IF \E i \in 1..Len(HookFuncs) : HookFuncs[i] = failFunc
                     THEN (CHOOSE i \in 1..Len(HookFuncs) : HookFuncs[i] = failFunc) - 1
                     ELSE Len(HookFuncs)
         IN  [err |-> IF upto < Len(HookFuncs) THEN "err" ELSE "nil",
              funcs |-> {HookFuncs[i] : i \in 1..upto},
              tracked |-> FALSE]
    ELSE [err |-> "nil", funcs |-> {}, tracked |-> TRUE]

\* func (db *DB) open: Open, Handle = Get(), Ping
DBopen(d, openOut, pingOut, failFunc) ==
    IF openOut # "nil"
    THEN [err |-> openOut, Handle |-> d.Handle, open |-> openOut,
          ping |-> "notrun", conn |-> FALSE]
    ELSE LET hook == ConnectHook(d.EngineMode, failFunc)
             perr == IF pingOut # "nil" THEN pingOut ELSE hook.err
         IN  [err |-> perr, Handle |-> "set", open |-> "nil", ping |-> perr,
              conn |-> (perr = "nil")]

\* an Init that returns ErrVfsLocked only for a locked file, never for a
\* busy open or ping
DBInitNoSecondaryLockCheck(d, lockOut, openOut, pingOut, failFunc) ==
    IF d.Handle # "nil"
    THEN [ret |-> "db", err |-> "nil", Handle |-> d.Handle, lock |-> "notrun",
          open |-> "notrun", ping |-> "notrun", conn |-> FALSE]
    ELSE IF d.Type = DBTypeRegularFile /\ lockOut = "error"
    THEN [ret |-> "nil", err |-> DBError, Handle |-> d.Handle, lock |-> lockOut,
          open |-> "notrun", ping |-> "notrun", conn |-> FALSE]
    ELSE IF d.Type = DBTypeRegularFile /\ lockOut = "locked"
    THEN [ret |-> "nil", err |-> ErrVfsLocked, Handle |-> d.Handle,
          lock |-> lockOut, open |-> "notrun", ping |-> "notrun", conn |-> FALSE]
    ELSE LET o == DBopen(d, openOut, pingOut, failFunc)
             l == IF d.Type = DBTypeRegularFile THEN lockOut ELSE "notrun"
         IN  IF o.err # "nil"
             THEN [ret |-> "nil", err |-> DBError, Handle |-> o.Handle,
                   lock |-> l, open |-> o.open, ping |-> o.ping, conn |-> o.conn]
             ELSE [ret |-> "db", err |-> "nil", Handle |-> o.Handle,
                   lock |-> l, open |-> o.open, ping |-> o.ping, conn |-> o.conn]

\* func (db *DB) Init
DBInit(d, lockOut, openOut, pingOut, failFunc) ==
    IF d.Handle # "nil"
    THEN [ret |-> "db", err |-> "nil", Handle |-> d.Handle, lock |-> "notrun",
          open |-> "notrun", ping |-> "notrun", conn |-> FALSE]
    ELSE IF d.Type = DBTypeRegularFile /\ lockOut = "error"
    THEN [ret |-> "nil", err |-> DBError, Handle |-> d.Handle, lock |-> lockOut,
          open |-> "notrun", ping |-> "notrun", conn |-> FALSE]
    ELSE IF d.Type = DBTypeRegularFile /\ lockOut = "locked"
    THEN [ret |-> "nil", err |-> ErrVfsLocked, Handle |-> d.Handle,
          lock |-> lockOut, open |-> "notrun", ping |-> "notrun", conn |-> FALSE]
    ELSE LET o == DBopen(d, openOut, pingOut, failFunc)
             l == IF d.Type = DBTypeRegularFile THEN lockOut ELSE "notrun"
         IN  IF o.err = "busy"
             THEN [ret |-> "nil", err |-> ErrVfsLocked, Handle |-> o.Handle,
                   lock |-> l, open |-> o.open, ping |-> o.ping, conn |-> o.conn]
             ELSE IF o.err # "nil"
             THEN [ret |-> "nil", err |-> DBError, Handle |-> o.Handle,
                   lock |-> l, open |-> o.open, ping |-> o.ping, conn |-> o.conn]
             ELSE [ret |-> "db", err |-> "nil", Handle |-> o.Handle,
                   lock |-> l, open |-> o.open, ping |-> o.ping, conn |-> o.conn]

LockOutcomes == {"free", "locked", "error"}
OpenOutcomes == {"nil", "busy", "sqlerr", "err"}
PingOutcomes == {"nil", "busy", "sqlerr", "err"}
FailFuncs == {"none", "fuzzy", "tick_clock", "xhash"}

\* a caller selects the driver of a DB object before Init (EngineMode is exported)
SetEngineMode(n, m) ==
    /\ db[n].Handle = "nil"
    /\ db[n].EngineMode # m
    /\ db' = [db EXCEPT ![n].EngineMode = m]
    /\ UNCHANGED <<registeredDrivers, handleLive, sqlConns, sql3BackupConns,
                   nextConn, initRes, flushHist>>
    /\ UNCHANGED nonDbVars

\* a call of db.Init(); the lock checker, Open and Ping answer as the
\* environment decides; sql.Open fails for a driver that is not registered
InitCall(n, lockOut, openOut, pingOut, failFunc) ==
    /\ nextConn < MaxConns
    /\ db[n].EngineMode \notin registeredDrivers => openOut = "err"
    /\ LET r == DBInit(db[n], lockOut, openOut, pingOut, failFunc)
           hook == ConnectHook(db[n].EngineMode, failFunc)
           id == nextConn + 1
       IN  /\ db' = [db EXCEPT ![n].Handle = r.Handle]
           /\ handleLive' = [handleLive EXCEPT ![n] =
                 IF r.ping = "notrun" THEN @
                 ELSE IF r.conn THEN "live" ELSE "unpinged"]
           /\ sqlConns' = IF r.conn
                          THEN sqlConns \cup {[id |-> id, owner |-> n,
                                               driver |-> db[n].EngineMode,
                                               funcs |-> hook.funcs]}
                          ELSE sqlConns
           /\ sql3BackupConns' = IF r.conn /\ hook.tracked
                                 THEN Append(sql3BackupConns, id)
                                 ELSE sql3BackupConns
           /\ nextConn' = IF r.conn THEN id ELSE nextConn
           /\ flushHist' = IF r.conn /\ hook.tracked
                            THEN [flushHist EXCEPT !.tracked =
                                     @ \cup {[id |-> id, owner |-> n]}]
                            ELSE flushHist
           /\ initRes' = [called |-> TRUE, name |-> n, type |-> db[n].Type,
                          handleBefore |-> db[n].Handle, ret |-> r.ret,
                          err |-> r.err, lock |-> r.lock, open |-> r.open,
                          ping |-> r.ping, handleAfter |-> r.Handle,
                          opened |-> r.conn, liveAfter |-> handleLive'[n]]
    /\ UNCHANGED registeredDrivers
    /\ UNCHANGED nonDbVars

\* database/sql opens one more connection for a live handle: the driver's
\* ConnectHook runs on it, and a failing hook discards the connection
PoolConnect(n, failFunc) ==
    /\ handleLive[n] = "live"
    /\ nextConn < MaxConns
    /\ LET hook == ConnectHook(db[n].EngineMode, failFunc)
           id == nextConn + 1
       IN  IF hook.err # "nil"
           THEN UNCHANGED <<sqlConns, sql3BackupConns, nextConn, flushHist>>
           ELSE /\ sqlConns' = sqlConns \cup {[id |-> id, owner |-> n,
                                                driver |-> db[n].EngineMode,
                                                funcs |-> hook.funcs]}
                /\ sql3BackupConns' = IF hook.tracked
                                      THEN Append(sql3BackupConns, id)
                                      ELSE sql3BackupConns
                /\ nextConn' = id
                /\ flushHist' = IF hook.tracked
                                 THEN [flushHist EXCEPT !.tracked =
                                          @ \cup {[id |-> id, owner |-> n]}]
                                 ELSE flushHist
    /\ UNCHANGED <<registeredDrivers, db, handleLive, initRes>>
    /\ UNCHANGED nonDbVars

\* func (db *DB) Close: closes the handle, which closes its connections;
\* Handle itself is left as it is
CloseCall(n, closeErr) ==
    /\ db[n].Handle # "nil"
    /\ handleLive[n] # "closed"
    /\ IF closeErr
       THEN UNCHANGED <<handleLive, sqlConns>>
       ELSE /\ handleLive' = [handleLive EXCEPT ![n] = "closed"]
            /\ sqlConns' = {c \in sqlConns : c.owner # n}
    /\ UNCHANGED <<registeredDrivers, db, sql3BackupConns, nextConn, initRes,
                   flushHist>>
    /\ UNCHANGED nonDbVars

\* _sql3BackupConns[:len(_sql3BackupConns)-1]: the list without its last
\* element; slicing the empty list panics (slice bounds out of range)
DropLast(conns) ==
    IF Len(conns) = 0 THEN [conns |-> conns, panic |-> TRUE]
    ELSE [conns |-> SubSeq(conns, 1, Len(conns) - 1), panic |-> FALSE]

\* func flushSqliteCon(con *sqlx.DB), called with the handle of DB object n:
\* con.Close(), then the list loses its last element
FlushCall(n) ==
    /\ db[n].Handle # "nil"
    /\ handleLive' = [handleLive EXCEPT ![n] = "closed"]
    /\ sqlConns' = {c \in sqlConns : c.owner # n}
    /\ LET r == DropLast(sql3BackupConns)
       IN  /\ sql3BackupConns' = r.conns
           /\ flushHist' = [flushHist EXCEPT !.flushed = @ \cup {n},
                                              !.panic = @ \/ r.panic]
    /\ UNCHANGED <<registeredDrivers, db, nextConn, initRes>>
    /\ UNCHANGED nonDbVars

DbNext ==
    \/ \E n \in DBNames : FlushCall(n)
    \/ RegisterSqliteHooks
    \/ \E n \in DBNames, m \in Drivers : SetEngineMode(n, m)
    \/ \E n \in DBNames, l \in LockOutcomes, o \in OpenOutcomes,
          p \in PingOutcomes, f \in FailFuncs : InitCall(n, l, o, p, f)
    \/ \E n \in DBNames, f \in FailFuncs : PoolConnect(n, f)
    \/ \E n \in DBNames, e \in BOOLEAN : CloseCall(n, e)

(***************************************************************************)
(* Path expansion and browser detection.  A path is a sequence of          *)
(* components: "~", "$V" (a reference to the environment variable V),      *)
(* "H" (the home directory, once expanded) and file names.                 *)
(***************************************************************************)
Home == <<"H">>
FsPaths == {<<"H", "d1">>, <<"H", "d2">>, <<"H", "ln">>}

\* what a path of the file system holds: nothing, a directory, a regular
\* file, or a symbolic link to another path
FsEntries(p) ==
    IF p = <<"H", "ln">>
    THEN {[kind |-> "none"], [kind |-> "link", target |-> <<"H", "d1">>],
          [kind |-> "link", target |-> <<"H", "d2">>]}
    ELSE {[kind |-> "none"], [kind |-> "dir"], [kind |-> "file"]}

\* the directory strings of a browser definition
DirStrings == {<<>>, <<"~", "d1">>, <<"~", "d2">>, <<"~", "ln">>, <<"$V">>,
               <<"$V", "d1">>}

Mozilla == 0
ChromeBased == 1
Qutebrowser == 2

BrowserDefs == [Flavour : {"firefox"}, Family : {Mozilla},
                BaseDir : DirStrings, SnapDir : DirStrings,
                FlatpakDir : DirStrings]

Panic == "panic"

\* os.Stat / os.Lstat on a path
Lstat(p, fs) ==
    IF p = Home THEN [kind |-> "dir"]
    ELSE IF p \in FsPaths THEN fs[p] ELSE [kind |-> "none"]

\* the kind of file os.Stat sees, symbolic links followed
Stat(p, fs) ==
    LET e == Lstat(p, fs)
    IN  IF e.kind = "link" THEN Lstat(e.target, fs).kind ELSE e.kind

\* func DirExists(path string) (bool, error)
DirExists(p, fs) ==
    LET k == Stat(p, fs)
    IN  IF k = "none" THEN [ok |-> FALSE, err |-> "err"]
        ELSE [ok |-> (k = "dir"), err |-> "nil"]

\* filepath.EvalSymlinks: the path with its links resolved, an error when
\* the path does not exist
EvalSymlinks(p, fs) ==
    LET e == Lstat(p, fs)
    IN  IF Stat(p, fs) = "none" THEN [path |-> <<>>, err |-> "err"]
        ELSE IF e.kind = "link" THEN [path |-> e.target, err |-> "nil"]
        ELSE [path |-> p, err |-> "nil"]

\* filepath.Join: the non-empty elements, joined
RECURSIVE Join(_)
Join(paths) ==
    IF paths = <<>> THEN <<>> ELSE Head(paths) \o Join(Tail(paths))

\* os.ExpandEnv: every $V replaced by the value of V (empty when unset)
RECURSIVE ExpandEnv(_, _)
ExpandEnv(p, envV) ==
    IF p = <<>> THEN <<>>
    ELSE (IF Head(p) = "$V" THEN envV ELSE <<Head(p)>>)
         \o ExpandEnv(Tail(p), envV)

\* the shared tail of ExpandPath and ExpandOnly: path[0] == '~' on the
\* expanded string, which panics (index out of range) when it is empty
ExpandTilde(path) ==
    IF path = <<>> THEN [path |-> <<>>, err |-> Panic]
    ELSE IF Head(path) = "~" THEN [path |-> Home \o Tail(path), err |-> "nil"]
    ELSE [path |-> path, err |-> "nil"]

\* func ExpandPath(paths ...string) (string, error)
ExpandPath(paths, E) ==
    IF Len(paths) = 0 THEN [path |-> <<>>, err |-> "err"]
    ELSE IF ~E.homeOK THEN [path |-> <<>>, err |-> "err"]
    ELSE LET t == ExpandTilde(ExpandEnv(Join(paths), E.envV))
         IN  IF t.err = Panic THEN t ELSE EvalSymlinks(t.path, E.fs)

\* an ExpandOnly that ends with filepath.EvalSymlinks as ExpandPath does
ExpandOnlyResolving(paths, E) ==
    IF Len(paths) = 0 THEN [path |-> <<>>, err |-> "err"]
    ELSE IF Len(paths[1]) = 0 THEN [path |-> <<>>, err |-> "err"]
    ELSE IF ~E.homeOK THEN [path |-> <<>>, err |-> "err"]
    ELSE LET t == ExpandTilde(ExpandEnv(Join(paths), E.envV))
         IN  IF t.err = Panic THEN t ELSE EvalSymlinks(t.path, E.fs)

\* func ExpandOnly(paths ...string) (string, error)
ExpandOnly(paths, E) ==
    IF Len(paths) = 0 THEN [path |-> <<>>, err |-> "err"]
    ELSE IF Len(paths[1]) = 0 THEN [path |-> <<>>, err |-> "err"]
    ELSE IF ~E.homeOK THEN [path |-> <<>>, err |-> "err"]
    ELSE ExpandTilde(ExpandEnv(Join(paths), E.envV))

\* func isValidDir(dir string, ptype string) bool: "true", "false", or
\* Panic when ExpandOnly panics
isValidDir(dir, E) ==
    IF dir = <<>> THEN "false"
    ELSE LET n == ExpandOnly(<<dir>>, E)
         IN  IF n.err = Panic THEN Panic
             ELSE IF n.err # "nil" THEN "false"
             ELSE IF DirExists(n.path, E.fs).ok THEN "true" ELSE "false"

\* which directory GetBaseDir and ExpandBaseDir select: "flat", "snap",
\* "base", or Panic
SelectDir(b, E) ==
    LET f == IF b.FlatpakDir # <<>> THEN isValidDir(b.FlatpakDir, E)
             ELSE "false"
    IN  IF f = Panic THEN Panic
        ELSE IF f = "true" THEN "flat"
        ELSE LET sn == IF b.SnapDir # <<>> THEN isValidDir(b.SnapDir, E)
                       ELSE "false"
             IN  IF sn = Panic THEN Panic
                 ELSE IF sn = "true" THEN "snap" ELSE "base"

\* func (b BrowserDef) GetBaseDir() string
GetBaseDir(b, E) ==
    LET sel == SelectDir(b, E)
    IN  IF sel = Panic THEN [dir |-> <<>>, err |-> Panic]
        ELSE IF sel = "flat" THEN [dir |-> b.FlatpakDir, err |-> "nil"]
        ELSE IF sel = "snap" THEN [dir |-> b.SnapDir, err |-> "nil"]
        ELSE [dir |-> b.BaseDir, err |-> "nil"]

\* func (b BrowserDef) ExpandBaseDir() (string, error)
ExpandBaseDir(b, E) ==
    LET sel == SelectDir(b, E)
    IN  IF sel = Panic THEN [path |-> <<>>, err |-> Panic]
        ELSE IF sel = "flat" THEN ExpandPath(<<b.FlatpakDir>>, E)
        ELSE IF sel = "snap" THEN ExpandPath(<<b.SnapDir>>, E)
        ELSE ExpandPath(<<b.BaseDir>>, E)

\* func (b BrowserDef) Detect() bool: "true", "false" or Panic; an expansion
\* error is logged and falls through to return true
Detect(b, E) ==
    LET x == ExpandBaseDir(b, E)
    IN  IF x.err = Panic THEN Panic
        ELSE IF x.err # "nil"
        THEN (IF GetBaseDir(b, E).err = Panic THEN Panic ELSE "true")
        ELSE LET d == DirExists(x.path, E.fs)
             IN  IF d.err # "nil" \/ ~d.ok THEN "false" ELSE "true"

NoDef == [Flavour |-> "none"]
NoCall == [op |-> "none"]

BrInit ==
    /\ osEnv = [fs |-> [p \in FsPaths |-> [kind |-> "none"]], envV |-> <<>>,
                homeOK |-> TRUE]
    /\ brDef = NoDef
    /\ brCall = NoCall
    /\ exCall = NoCall

\* the world changes one file: created, removed, replaced or relinked
FsChange(p, e) ==
    /\ osEnv.fs[p] # e
    /\ osEnv' = [osEnv EXCEPT !.fs[p] = e]
    /\ brCall' = NoCall
    /\ exCall' = NoCall
    /\ UNCHANGED brDef
    /\ UNCHANGED nonBrVars

\* the process is started with another value of $V or without $HOME
EnvChange(v, h) ==
    /\ <<v, h>> # <<osEnv.envV, osEnv.homeOK>>
    /\ osEnv' = [osEnv EXCEPT !.envV = v, !.homeOK = h]
    /\ brCall' = NoCall
    /\ exCall' = NoCall
    /\ UNCHANGED brDef
    /\ UNCHANGED nonBrVars

\* a browser definition is taken up
LoadDef(b) ==
    /\ brDef = NoDef
    /\ brDef' = b
    /\ UNCHANGED <<osEnv, brCall, exCall>>
    /\ UNCHANGED nonBrVars

GetBaseDirCall ==
    /\ brDef # NoDef
    /\ brCall' = [op |-> "GetBaseDir", res |-> GetBaseDir(brDef, osEnv)]
    /\ UNCHANGED <<osEnv, brDef, exCall>>
    /\ UNCHANGED nonBrVars

ExpandBaseDirCall ==
    /\ brDef # NoDef
    /\ brCall' = [op |-> "ExpandBaseDir", res |-> ExpandBaseDir(brDef, osEnv)]
    /\ UNCHANGED <<osEnv, brDef, exCall>>
    /\ UNCHANGED nonBrVars

DetectCall ==
    /\ brDef # NoDef
    /\ brCall' = [op |-> "Detect", res |-> Detect(brDef, osEnv)]
    /\ UNCHANGED <<osEnv, brDef, exCall>>
    /\ UNCHANGED nonBrVars

\* the argument lists of the direct calls: no argument, an empty string,
\* one path, a path in two parts, a path after an empty first part
PathArgs == {<<>>, <<<<>>>>, <<<<"~", "d1">>>>, <<<<"~", "ln">>>>,
             <<<<"~">>, <<"ln">>>>, <<<<"$V">>>>, <<<<"$V">>, <<"d2">>>>,
             <<<<>>, <<"~", "d2">>>>}

\* utils.ExpandOnly(paths...) is called
ExpandOnlyCall(paths) ==
    /\ exCall' = [op |-> "ExpandOnly", args |-> paths,
                  res |-> ExpandOnly(paths, osEnv)]
    /\ UNCHANGED <<osEnv, brDef, brCall>>
    /\ UNCHANGED nonBrVars

\* utils.ExpandPath(paths...) is called; what ExpandOnly returned for the
\* same arguments just before is kept with the result
ExpandPathCall(paths) ==
    /\ exCall' = [op |-> "ExpandPath", args |-> paths,
                  res |-> ExpandPath(paths, osEnv),
                  only |-> IF exCall.op = "ExpandOnly" /\ exCall.args = paths
                           THEN exCall.res
                           ELSE [path |-> <<>>, err |-> "notcalled"]]
    /\ UNCHANGED <<osEnv, brDef, brCall>>
    /\ UNCHANGED nonBrVars

\* the direct calls of the two expansions, in a changing world
ExpandNext ==
    \/ \E p \in FsPaths : \E e \in FsEntries(p) : FsChange(p, e)
    \/ \E v \in {<<>>, Home}, h \in BOOLEAN : EnvChange(v, h)
    \/ \E paths \in PathArgs : ExpandOnlyCall(paths)
    \/ \E paths \in PathArgs : ExpandPathCall(paths)

BrNext ==
    \/ \E p \in FsPaths : \E e \in FsEntries(p) : FsChange(p, e)
    \/ \E v \in {<<>>, Home}, h \in BOOLEAN : EnvChange(v, h)
    \/ \E b \in BrowserDefs : LoadDef(b)
    \/ GetBaseDirCall
    \/ ExpandBaseDirCall
    \/ DetectCall

(***************************************************************************)
(* The registry of browser definitions (the generated file).               *)
(***************************************************************************)
Families == {Mozilla, ChromeBased, Qutebrowser}

\* the definitions a caller may add at runtime
RegDefs == [Flavour : {"firefox", "chrome"}, Family : {Mozilla, ChromeBased},
            BaseDir : {<<"~", "d1">>, <<"~", "d2">>}, SnapDir : {<<>>},
            FlatpakDir : {<<>>}]

\* the list the generator wrote for this platform
GeneratedDefs ==
    << [Flavour |-> "firefox", Family |-> Mozilla, BaseDir |-> <<"~", "d1">>,
        SnapDir |-> <<>>, FlatpakDir |-> <<>>],
       [Flavour |-> "chrome", Family |-> ChromeBased,
        BaseDir |-> <<"~", "d2">>, SnapDir |-> <<>>, FlatpakDir |-> <<>>] >>

\* result[key] = value on a Go map
MapPut(m, k, v) == [x \in (DOMAIN m) \cup {k} |-> IF x = k THEN v ELSE m[x]]

EmptyMap == [x \in {} |-> 0]

\* the loop of Defined over the list, in order
RECURSIVE DefinedLoop(_, _, _)
DefinedLoop(defs, family, result) ==
    IF defs = <<>> THEN result
    ELSE LET bd == Head(defs)
         IN  DefinedLoop(Tail(defs), family,
                         IF bd.Family = family
                         THEN MapPut(result, bd.Flavour, bd)
                         ELSE result)

\* func Defined(family BrowserFamily) map[string]BrowserDef
Defined(defs, family) == DefinedLoop(defs, family, EmptyMap)

\* an AddBrowserDef that puts the new definition in front
AddBrowserDefInFront(defs, b) == <<b>> \o defs

\* func AddBrowserDef(b BrowserDef): DefinedBrowsers = append(DefinedBrowsers, b)
AddBrowserDef(defs, b) == Append(defs, b)

NoAdd == [added |-> FALSE]

RegInit ==
    /\ DefinedBrowsers = GeneratedDefs
    /\ regHist = NoAdd

AddBrowserDefCall(b) ==
    /\ Len(DefinedBrowsers) < MaxDefs
    /\ DefinedBrowsers' = AddBrowserDef(DefinedBrowsers, b)
    /\ regHist' = [added |-> TRUE, b |-> b, before |-> DefinedBrowsers]
    /\ UNCHANGED nonRegVars

RegNext == \E b \in RegDefs : AddBrowserDefCall(b)

(***************************************************************************)
(* The per-source watcher.  Its code is not among the sources; it is       *)
(* modelled from the state machine of section 4.7.                         *)
(***************************************************************************)
Sources == {"firefox", "chrome"}

\* a timer that also fires while a reload is running
MayStartReloadWhileReloading(st, timer) ==
    st \in {"Debouncing", "Backoff", "Reloading"} /\ timer = 0

\* a timeout of the source's timer starts a reload in these states only
MayStartReload(st, timer) == st \in {"Debouncing", "Backoff"} /\ timer = 0

\* an event that leaves a running debounce timer alone
TimerAfterEventKept(st, timer) ==
    IF st = "Debouncing" THEN timer ELSE DebounceTicks

\* (event): the debounce timer is set, or reset, to the full delay
TimerAfterEvent(st, timer) == DebounceTicks

\* no burst yet: events of the burst, reloads the debounce timeout started,
\* reloads the backoff timer started, transient errors, and the quiet time
\* at which the debounce timeout started the reload
NoBurst == [ev |-> 0, deb |-> 0, retry |-> 0, transient |-> 0, startQuiet |-> 0]

WatchInit ==
    /\ wstate = [s \in Sources |-> "Idle"]
    /\ wtimer = [s \in Sources |-> 0]
    /\ parses = [s \in Sources |-> 0]
    /\ started = [s \in Sources |-> 0]
    /\ finished = [s \in Sources |-> 0]
    /\ events = [s \in Sources |-> 0]
    /\ quiet = [s \in Sources |-> 0]
    /\ burst = [s \in Sources |-> NoBurst]

\* Idle -> (event) -> Debouncing; Debouncing -> (event) -> Debouncing [reset]
FsEvent(s) ==
    /\ wstate[s] \in {"Idle", "Debouncing"}
    /\ started[s] < MaxReloads
    /\ events[s] < MaxEvents
    /\ wstate' = [wstate EXCEPT ![s] = "Debouncing"]
    /\ wtimer' = [wtimer EXCEPT ![s] = TimerAfterEvent(wstate[s], wtimer[s])]
    /\ events' = [events EXCEPT ![s] = @ + 1]
    /\ quiet' = [quiet EXCEPT ![s] = 0]
    /\ burst' = [burst EXCEPT ![s] =
                    IF wstate[s] = "Idle"
                    THEN [NoBurst EXCEPT !.ev = 1]
                    ELSE [@ EXCEPT !.ev = @ + 1]]
    /\ UNCHANGED <<parses, started, finished>>
    /\ UNCHANGED nonWatchVars

\* time passes on the timer of a source
TimerTick(s) ==
    /\ wstate[s] \in {"Debouncing", "Backoff"}
    /\ wtimer[s] > 0
    /\ wtimer' = [wtimer EXCEPT ![s] = @ - 1]
    /\ quiet' = [quiet EXCEPT ![s] =
                    IF wstate[s] = "Debouncing" THEN @ + 1 ELSE @]
    /\ UNCHANGED <<wstate, parses, started, finished, events, burst>>
    /\ UNCHANGED nonWatchVars

\* Debouncing -> (timeout) -> Reloading; Backoff -> (timer) -> Reloading
StartReload(s) ==
    /\ MayStartReload(wstate[s], wtimer[s])
    /\ started[s] < MaxReloads
    /\ wstate' = [wstate EXCEPT ![s] = "Reloading"]
    /\ parses' = [parses EXCEPT ![s] = @ + 1]
    /\ started' = [started EXCEPT ![s] = @ + 1]
    /\ burst' = [burst EXCEPT ![s] =
                    IF wstate[s] = "Debouncing"
                    THEN [@ EXCEPT !.deb = @ + 1, !.startQuiet = quiet[s]]
                    ELSE [@ EXCEPT !.retry = @ + 1]]
    /\ quiet' = [quiet EXCEPT ![s] = 0]
    /\ UNCHANGED <<wtimer, finished, events>>
    /\ UNCHANGED nonWatchVars

\* Reloading -> (success) -> Idle
ReloadSuccess(s) ==
    /\ wstate[s] = "Reloading"
    /\ wstate' = [wstate EXCEPT ![s] = "Idle"]
    /\ parses' = [parses EXCEPT ![s] = @ - 1]
    /\ finished' = [finished EXCEPT ![s] = @ + 1]
    /\ UNCHANGED <<wtimer, started, events, quiet, burst>>
    /\ UNCHANGED nonWatchVars

\* Reloading -> (transient error) -> Backoff
ReloadTransient(s) ==
    /\ wstate[s] = "Reloading"
    /\ wstate' = [wstate EXCEPT ![s] = "Backoff"]
    /\ wtimer' = [wtimer EXCEPT ![s] = BackoffTicks]
    /\ parses' = [parses EXCEPT ![s] = @ - 1]
    /\ finished' = [finished EXCEPT ![s] = @ + 1]
    /\ burst' = [burst EXCEPT ![s].transient = @ + 1]
    /\ UNCHANGED <<started, events, quiet>>
    /\ UNCHANGED nonWatchVars

\* Reloading -> (fatal error) -> Failed
ReloadFatal(s) ==
    /\ wstate[s] = "Reloading"
    /\ wstate' = [wstate EXCEPT ![s] = "Failed"]
    /\ parses' = [parses EXCEPT ![s] = @ - 1]
    /\ finished' = [finished EXCEPT ![s] = @ + 1]
    /\ UNCHANGED <<wtimer, started, events, quiet, burst>>
    /\ UNCHANGED nonWatchVars

\* Failed -> (operator action) -> Idle
OperatorReset(s) ==
    /\ wstate[s] = "Failed"
    /\ wstate' = [wstate EXCEPT ![s] = "Idle"]
    /\ UNCHANGED <<wtimer, parses, started, finished, events, quiet, burst>>
    /\ UNCHANGED nonWatchVars

WatchNext ==
    \/ \E s \in Sources : FsEvent(s)
    \/ \E s \in Sources : TimerTick(s)
    \/ \E s \in Sources : StartReload(s)
    \/ \E s \in Sources : ReloadSuccess(s)
    \/ \E s \in Sources : ReloadTransient(s)
    \/ \E s \in Sources : ReloadFatal(s)
    \/ \E s \in Sources : OperatorReset(s)

(***************************************************************************)
(* Merger and URL Index, modelled from sections 4.3 and 4.8: a source's    *)
(* tree is taken as its contribution, one leaf per url with its tag set.   *)
(***************************************************************************)
\* the urls in lexicographic order
UrlSeq == <<"u1", "u2">>

\* the tag sets of a leaf
LeafTags == SUBSET Tags \ {{}}

\* the trees a reload can produce
Trees == UNION {[D -> LeafTags] : D \in SUBSET Urls}

EmptyTree == [u \in {} |-> {}]

\* the sources whose contribution has the url
Contributors(sh, u) == {o \in Sources : u \in DOMAIN sh[o]}

\* the union of the tags the contributors give the url
UnionTags(sh, u) == UNION {sh[o][u] : o \in Contributors(sh, u)}

\* an upsert that only adds the incoming tags to the entry of the index
UpsertTagsAccumulate(idx, sh, u, incoming) ==
    (IF u \in DOMAIN idx THEN idx[u] ELSE {}) \cup incoming

\* step 2: the tags of an added or changed url after the upsert
UpsertTags(idx, sh, u, incoming) == UnionTags(sh, u)

\* step 1: the diff of the previous contribution against the new tree
Changed(prev, new) ==
    {u \in DOMAIN new : u \notin DOMAIN prev \/ prev[u] # new[u]}

Removed(prev, new) == DOMAIN prev \ DOMAIN new

\* steps 2 and 3: the index after the batch of source s with tree `new`
MergeIndex(idx, sh, s, new) ==
    LET prev == sh[s]
        sh2 == [sh EXCEPT ![s] = new]
        gone == {u \in Removed(prev, new) : Contributors(sh2, u) = {}}
        dom == (DOMAIN idx \cup DOMAIN new) \ gone
    IN  [u \in dom |->
            IF u \in Changed(prev, new)
            THEN UpsertTags(idx, sh2, u, new[u])
            ELSE IF u \in Removed(prev, new)
            THEN UnionTags(sh2, u)
            ELSE idx[u]]

\* step 4: the batch for the store, in lexicographic order of url
StoreBatch(idx2, sh, s, new) ==
    LET prev == sh[s]
        touched == Changed(prev, new) \cup Removed(prev, new)
        urls == SelectSeq(UrlSeq, LAMBDA u : u \in touched)
    IN  [i \in 1..Len(urls) |->
            IF urls[i] \in DOMAIN idx2
            THEN [op |-> "Upsert", url |-> urls[i], tags |-> idx2[urls[i]]]
            ELSE [op |-> "Delete", url |-> urls[i], tags |-> {}]]

MergeInit ==
    /\ mtree = [s \in Sources |-> EmptyTree]
    /\ shadow = [s \in Sources |-> EmptyTree]
    /\ uindex = EmptyTree
    /\ mqueue = <<>>
    /\ mbatch = <<>>

InFlight == {mqueue[i] : i \in 1..Len(mqueue)}

\* a reload of source s succeeded with tree t: (source_id, tree) is sent to
\* the merger; one batch of a source is in flight at a time
SourceReloaded(s, t) ==
    /\ s \notin InFlight
    /\ mtree' = [mtree EXCEPT ![s] = t]
    /\ mqueue' = Append(mqueue, s)
    /\ mbatch' = <<>>
    /\ UNCHANGED <<shadow, uindex>>
    /\ UNCHANGED nonMergeVars

\* the merger takes the next message in arrival order and applies it
MergerApply ==
    /\ mqueue # <<>>
    /\ LET s == Head(mqueue)
           idx2 == MergeIndex(uindex, shadow, s, mtree[s])
       IN  /\ uindex' = idx2
           /\ mbatch' = StoreBatch(idx2, shadow, s, mtree[s])
           /\ shadow' = [shadow EXCEPT ![s] = mtree[s]]
    /\ mqueue' = Tail(mqueue)
    /\ UNCHANGED mtree
    /\ UNCHANGED nonMergeVars

MergeNext ==
    \/ \E s \in Sources, t \in Trees : SourceReloaded(s, t)
    \/ MergerApply

(***************************************************************************)
(* Sync engine, modelled from section 4.10 for two devices.  A sync record *)
(* is (url, xhsum, version, node_id, flags); a tombstone has flags = 1 and *)
(* the hash of the null payload.                                           *)
(***************************************************************************)
Devices == {"A", "B"}

Peer(d) == IF d = "A" THEN "B" ELSE "A"

\* node ids are compared as strings: "A" < "B"
NodeRank(n) == IF n = "A" THEN 1 ELSE 2

NoRec == [xhsum |-> "none", version |-> 0, node_id |-> "none", flags |-> 0]

\* the rows a store can hold for a url before the devices sync
LiveRows ==
    [xhsum : {"h1", "h2"}, version : 1..MaxVersion, node_id : Devices,
     flags : {0}]

Tombstones ==
    [xhsum : {"h0"}, version : 1..MaxVersion, node_id : Devices, flags : {1}]

\* the first url takes every row, the second url the rows of one content
\* written on device A
RowsOf(u) ==
    IF u = UrlSeq[1]
    THEN LiveRows \cup Tombstones \cup {NoRec}
    ELSE {r \in LiveRows : r.xhsum = "h1" /\ r.node_id = "A"} \cup {NoRec}

Stores == {st \in [Urls -> LiveRows \cup Tombstones \cup {NoRec}] :
              \A u \in Urls : st[u] \in RowsOf(u)}

\* a winner that looks at the version only and keeps the local row on a tie
LargerVersionOnly(a, b) == a.version > b.version

\* (version, node_id) of a is lexicographically larger than that of b
Larger(a, b) ==
    \/ a.version > b.version
    \/ a.version = b.version /\ NodeRank(a.node_id) > NodeRank(b.node_id)

\* an import routed through the upsert: an existing row is updated and its
\* version set to tick_clock(version)
ImportRowViaUpsert(local, clk, inc) ==
    IF local = NoRec
    THEN [row |-> inc, clk |-> clk]
    ELSE [row |-> [inc EXCEPT !.version = Tick(clk, local.version).value],
          clk |-> Tick(clk, local.version).internal]

\* import steps 1 to 3 on the local row of the record's url
ImportRow(local, clk, inc) ==
    IF local = NoRec
    THEN [row |-> inc, clk |-> clk]
    ELSE IF local.xhsum = inc.xhsum
    THEN [row |-> local, clk |-> clk]
    ELSE [row |-> IF Larger(inc, local) THEN inc ELSE local,
          clk |-> Tick(clk, inc.version).internal]

\* an export that sends one record at a time, the first by url
ExportBatchOneByOne(st, wm) ==
    LET urls == SelectSeq(UrlSeq, LAMBDA u : st[u] # NoRec /\ st[u].version > wm)
    IN  [i \in 1..(IF Len(urls) > 0 THEN 1 ELSE 0) |->
            [url |-> urls[i], rec |-> st[urls[i]]]]

\* the records a device exports: those with version above the watermark,
\* in the order of their urls
ExportBatch(st, wm) ==
    LET urls == SelectSeq(UrlSeq, LAMBDA u : st[u] # NoRec /\ st[u].version > wm)
    IN  [i \in 1..Len(urls) |-> [url |-> urls[i], rec |-> st[urls[i]]]]

NoImport == [dev |-> "none", url |-> NoUrl, rec |-> NoRec, local |-> NoRec,
             before |-> <<>>, again |-> FALSE]

EmptyStore == [u \in Urls |-> NoRec]

SyncInit ==
    /\ sphase = "boot"
    /\ sstore = [d \in Devices |-> EmptyStore]
    /\ sclock = [d \in Devices |-> 0]
    /\ watermark = [d \in Devices |-> 0]
    /\ inflight = [d \in Devices |-> <<>>]
    /\ lastImp = NoImport

\* one (version, node_id) of a url stands for one mutation: the devices
\* hold the same row for it
SameMutationSameRow(stA, stB) ==
    \A u \in Urls :
        (/\ stA[u] # NoRec
         /\ stA[u].version = stB[u].version
         /\ stA[u].node_id = stB[u].node_id) => stA[u] = stB[u]

\* the devices start with some stores; the clock of a device starts at
\* max(version) of its store
SyncStart ==
    /\ sphase = "boot"
    /\ \E stA \in Stores, stB \in Stores :
          /\ SameMutationSameRow(stA, stB)
          /\ sstore' = [d \in Devices |-> IF d = "A" THEN stA ELSE stB]
          /\ sclock' = [d \in Devices |->
                           SetMax({(IF d = "A" THEN stA ELSE stB)[u].version :
                                      u \in Urls})]
    /\ sphase' = "run"
    /\ UNCHANGED <<watermark, inflight, lastImp>>
    /\ UNCHANGED nonSyncVars

\* device d exports to its peer every record with version > watermark
Export(d) ==
    /\ sphase = "run"
    /\ inflight[Peer(d)] = <<>>
    /\ ExportBatch(sstore[d], watermark[d]) # <<>>
    /\ inflight' = [inflight EXCEPT ![Peer(d)] =
                       ExportBatch(sstore[d], watermark[d])]
    /\ UNCHANGED <<sphase, sstore, sclock, watermark, lastImp>>
    /\ UNCHANGED nonSyncVars

\* device d imports the next record on its way to it; the watermark its
\* peer keeps for d advances to the record's version
Import(d) ==
    /\ inflight[d] # <<>>
    /\ LET m == Head(inflight[d])
           r == ImportRow(sstore[d][m.url], sclock[d], m.rec)
       IN  /\ sstore' = [sstore EXCEPT ![d][m.url] = r.row]
           /\ sclock' = [sclock EXCEPT ![d] = r.clk]
           /\ watermark' = [watermark EXCEPT ![Peer(d)] =
                               Max(@, m.rec.version)]
           /\ lastImp' = [dev |-> d, url |-> m.url, rec |-> m.rec,
                          local |-> sstore[d][m.url], before |-> sstore[d],
                          again |-> FALSE]
    /\ inflight' = [inflight EXCEPT ![d] = Tail(@)]
    /\ UNCHANGED sphase
    /\ UNCHANGED nonSyncVars

\* the record device d imported last is delivered to it once more
Redeliver(d) ==
    /\ lastImp.dev = d
    /\ ~lastImp.again
    /\ LET r == ImportRow(sstore[d][lastImp.url], sclock[d], lastImp.rec)
       IN  /\ sstore' = [sstore EXCEPT ![d][lastImp.url] = r.row]
           /\ sclock' = [sclock EXCEPT ![d] = r.clk]
    /\ lastImp' = [lastImp EXCEPT !.again = TRUE, !.before = sstore[d]]
    /\ UNCHANGED <<sphase, watermark, inflight>>
    /\ UNCHANGED nonSyncVars

\* the exchange, every record delivered once
SyncExchange ==
    \/ SyncStart
    \/ \E d \in Devices : Export(d)
    \/ \E d \in Devices : Import(d)

SyncNext ==
    \/ SyncExchange
    \/ \E d \in Devices : Redeliver(d)

(***************************************************************************)
(* UPSERT into gskbookmarks, modelled from section 4.9, for one url.       *)
(***************************************************************************)
UpsertUrl == <<"a">>

\* the titles and descriptions of the incoming bookmarks
UpsertTexts == StrsUpTo({"a", "x"}, 1)

UpsertBookmarks ==
    [url : {UpsertUrl}, title : UpsertTexts,
     tags : {t \in TagLists : Len(t) <= 1}, desc : UpsertTexts]

NoRow == [title |-> <<>>, tags |-> <<>>, desc |-> <<>>, xhsum |-> NoSum,
          version |-> 0]

\* ON CONFLICT DO UPDATE that stores the incoming title and description
\* as they are
UpsertRowOverwrite(old, bm, clk) ==
    LET t == Tick(clk, old.version)
    IN  [row |-> [title |-> bm.title, tags |-> JoinTags(bm.tags),
                  desc |-> bm.desc,
                  xhsum |-> xhsum(bm.url, bm.title, JoinTags(bm.tags), bm.desc),
                  version |-> t.value],
         clk |-> t.internal]

\* INSERT ... ON CONFLICT(url) DO UPDATE SET ...: the row and the clock
\* after the upsert of bm over the row old (NoRow: plain insert)
UpsertRow(old, bm, clk) ==
    LET title == IF old # NoRow /\ bm.title = <<>> THEN old.title ELSE bm.title
        desc == IF old # NoRow /\ bm.desc = <<>> THEN old.desc ELSE bm.desc
        tags == JoinTags(bm.tags)
        t == sqlTickClock(clk, old.version)
    IN  [row |-> [title |-> title, tags |-> tags, desc |-> desc,
                  xhsum |-> xhsum(bm.url, title, tags, desc),
                  version |-> t.value],
         clk |-> t.internal]

NoUpsert == [done |-> FALSE]

UpsertInit ==
    /\ urow = NoRow
    /\ uclock = 0
    /\ upserts = 0
    /\ lastUp = NoUpsert

\* the bookmark bm is upserted
UpsertBookmark(bm) ==
    /\ upserts < MaxUpserts
    /\ LET r == UpsertRow(urow, bm, uclock)
       IN  /\ urow' = r.row
           /\ uclock' = r.clk
    /\ upserts' = upserts + 1
    /\ lastUp' = [done |-> TRUE, old |-> urow, bm |-> bm, clk |-> uclock]
    /\ UNCHANGED nonUpsertVars

\* a row of another url is written: the clock ticks
UpsertOther ==
    /\ upserts < MaxUpserts
    /\ uclock' = sqlTickClock(uclock, 0).internal
    /\ upserts' = upserts + 1
    /\ UNCHANGED <<urow, lastUp>>
    /\ UNCHANGED nonUpsertVars

UpsertNext ==
    \/ \E bm \in UpsertBookmarks : UpsertBookmark(bm)
    \/ UpsertOther

(***************************************************************************)
(* The data directory: GetDataDir, the default database path of the        *)
(* database package's init(), MkDir and MkGosukiDataDir.                   *)
(***************************************************************************)
\* the values of $XDG_DATA_HOME and of $HOME: empty (or unset), or a path
XdgValues == {<<>>, <<"X">>, <<"X", "data">>}
HomeValues == {<<>>, Home}

\* a GetDataDir that looks at the home directory first
GetDataDirHomeFirst(E) ==
    IF E.home # <<>>
    THEN [dir |-> Join(<<E.home, <<".local">>, <<"share">>>>), err |-> "nil"]
    ELSE IF E.xdg # <<>> THEN [dir |-> E.xdg, err |-> "nil"]
    ELSE [dir |-> <<>>, err |-> "err"]

\* func GetDataDir() (string, error); os.UserHomeDir fails when $HOME is
\* empty
GetDataDir(E) ==
    IF E.xdg # <<>> THEN [dir |-> E.xdg, err |-> "nil"]
    ELSE IF E.home = <<>> THEN [dir |-> <<>>, err |-> "err"]
    ELSE [dir |-> Join(<<E.home, <<".local">>, <<"share">>>>), err |-> "nil"]

\* func init() of the database package: Config.Path, or log.Fatal
DbConfigInit(E) ==
    LET d == GetDataDir(E)
    IN  IF d.err # "nil" THEN [path |-> <<>>, err |-> "fatal"]
        ELSE [path |-> Join(<<d.dir, <<"gosuki", "gosuki.db">>>>),
              err |-> "nil"]

\* the directory MkDir is called for, as the file system has it:
\*   kind    nothing there, a regular file, or a directory
\*   search  the path can be looked up (no permission error from stat)
\*   write   the user may create and remove entries in the directory, or,
\*           when nothing is there, create it and its missing parents
\*   test    the entry named "test" in the directory: none, a file the
\*           user may write, a file the user may not write, or a directory
\*   data    the content of that file
DataFsStates ==
    {f \in [kind : {"none", "file", "dir"}, search : BOOLEAN,
            write : BOOLEAN, test : {"none", "file", "rofile", "dir"},
            data : {"", "old"}] :
        /\ f.kind # "dir" => f.test = "none"
        /\ f.test \notin {"file", "rofile"} => f.data = ""}

\* func MkDir(dir string) error: the error it returns and the directory
\* afterwards.  os.Create opens with O_CREATE|O_TRUNC.
MkDir(f) ==
    IF ~f.search
    THEN [err |-> "cannot write, incorrect permissions", fs |-> f]
    ELSE IF f.kind = "none"
    THEN (IF f.write
          THEN [err |-> "nil", fs |-> [f EXCEPT !.kind = "dir"]]
          ELSE [err |-> "mkdirall", fs |-> f])
    ELSE IF f.kind = "file"
    THEN [err |-> "unexpected error", fs |-> f]
    ELSE IF f.test = "dir"
    THEN [err |-> "unexpected error", fs |-> f]
    ELSE IF f.test = "rofile"
    THEN [err |-> "not writeable", fs |-> f]
    ELSE IF f.test = "file"
    THEN (IF f.write
          THEN [err |-> "nil", fs |-> [f EXCEPT !.test = "none", !.data = ""]]
          ELSE [err |-> "remove", fs |-> [f EXCEPT !.data = ""]])
    ELSE IF f.write
    THEN [err |-> "nil", fs |-> f]
    ELSE [err |-> "not writeable", fs |-> f]

\* func MkGosukiDataDir() error
MkGosukiDataDir(E, f) ==
    LET d == GetDataDir(E)
    IN  IF d.err # "nil" THEN [err |-> d.err, fs |-> f] ELSE MkDir(f)

NoDataCall == [op |-> "none"]

DataInit ==
    /\ dataEnv = [xdg |-> <<>>, home |-> Home]
    /\ dataFs = [kind |-> "none", search |-> TRUE, write |-> TRUE,
                 test |-> "none", data |-> ""]
    /\ dataCall = NoDataCall

\* the process is started in another environment
DataEnvChange(x, h) ==
    /\ <<x, h>> # <<dataEnv.xdg, dataEnv.home>>
    /\ dataEnv' = [xdg |-> x, home |-> h]
    /\ dataCall' = NoDataCall
    /\ UNCHANGED dataFs
    /\ UNCHANGED nonDataVars

\* the world changes the directory
DataFsChange(f) ==
    /\ f # dataFs
    /\ dataFs' = f
    /\ dataCall' = NoDataCall
    /\ UNCHANGED dataEnv
    /\ UNCHANGED nonDataVars

GetDataDirCall ==
    /\ dataCall' = [op |-> "GetDataDir", res |-> GetDataDir(dataEnv)]
    /\ UNCHANGED <<dataEnv, dataFs>>
    /\ UNCHANGED nonDataVars

DbConfigInitCall ==
    /\ dataCall' = [op |-> "init", res |-> DbConfigInit(dataEnv)]
    /\ UNCHANGED <<dataEnv, dataFs>>
    /\ UNCHANGED nonDataVars

MkDirCall ==
    /\ LET r == MkDir(dataFs)
       IN  /\ dataFs' = r.fs
           /\ dataCall' = [op |-> "MkDir", before |-> dataFs, err |-> r.err]
    /\ UNCHANGED dataEnv
    /\ UNCHANGED nonDataVars

MkGosukiDataDirCall ==
    /\ LET r == MkGosukiDataDir(dataEnv, dataFs)
       IN  /\ dataFs' = r.fs
           /\ dataCall' = [op |-> "MkGosukiDataDir", before |-> dataFs,
                           err |-> r.err]
    /\ UNCHANGED dataEnv
    /\ UNCHANGED nonDataVars

DataNext ==
    \/ \E x \in XdgValues, h \in HomeValues : DataEnvChange(x, h)
    \/ \E f \in DataFsStates : DataFsChange(f)
    \/ GetDataDirCall
    \/ DbConfigInitCall
    \/ MkDirCall
    \/ MkGosukiDataDirCall

(***************************************************************************)
(* Goroutines opening connections through the sqlite_hook_backup driver    *)
(* and flushing them.  _sql3BackupConns is a package variable with no      *)
(* lock: `list = append(list, conn)` and `list = list[:len(list)-1]` each  *)
(* read the slice and then write it, and another goroutine can run between *)
(* the read and the write.                                                 *)
(***************************************************************************)
HookIdle == [pc |-> "idle"]

NoHooks == [opened |-> {}, flushed |-> {}]

HookInit ==
    /\ hookG = [t \in Threads |-> HookIdle]
    /\ hookHist = NoHooks

\* ConnectHook of DriverBackupMode, first half: the new connection is
\* handed to the hook and append reads _sql3BackupConns
HookLoad(t) ==
    /\ DriverBackupMode \in registeredDrivers
    /\ hookG[t] = HookIdle
    /\ nextConn < MaxHooks
    /\ nextConn' = nextConn + 1
    /\ hookG' = [hookG EXCEPT ![t] = [pc |-> "append", conn |-> nextConn + 1,
                                      seen |-> sql3BackupConns]]
    /\ UNCHANGED <<registeredDrivers, db, handleLive, sqlConns,
                   sql3BackupConns, initRes, flushHist, hookHist>>
    /\ UNCHANGED nonHookVars

\* ConnectHook of DriverBackupMode, second half: the appended slice is
\* assigned to _sql3BackupConns and the connection is open
HookStore(t) ==
    /\ hookG[t].pc = "append"
    /\ sql3BackupConns' = Append(hookG[t].seen, hookG[t].conn)
    /\ hookHist' = [hookHist EXCEPT !.opened = @ \cup {hookG[t].conn}]
    /\ hookG' = [hookG EXCEPT ![t] = HookIdle]
    /\ UNCHANGED <<registeredDrivers, db, handleLive, sqlConns, nextConn,
                   initRes, flushHist>>
    /\ UNCHANGED nonHookVars

\* flushSqliteCon, first half, called for the connection opened last:
\* con.Close() and the read of _sql3BackupConns
FlushLoad(t) ==
    /\ hookG[t] = HookIdle
    /\ Len(sql3BackupConns) > 0
    /\ hookG' = [hookG EXCEPT ![t] =
                    [pc |-> "flush",
                     conn |-> sql3BackupConns[Len(sql3BackupConns)],
                     seen |-> sql3BackupConns]]
    /\ UNCHANGED <<registeredDrivers, db, handleLive, sqlConns,
                   sql3BackupConns, nextConn, initRes, flushHist, hookHist>>
    /\ UNCHANGED nonHookVars

\* flushSqliteCon, second half: the truncated slice is assigned
FlushStore(t) ==
    /\ hookG[t].pc = "flush"
    /\ sql3BackupConns' = DropLast(hookG[t].seen).conns
    /\ hookHist' = [hookHist EXCEPT !.flushed = @ \cup {hookG[t].conn}]
    /\ hookG' = [hookG EXCEPT ![t] = HookIdle]
    /\ UNCHANGED <<registeredDrivers, db, handleLive, sqlConns, nextConn,
                   initRes, flushHist>>
    /\ UNCHANGED nonHookVars

HookNext ==
    \/ RegisterSqliteHooks
    \/ \E t \in Threads : HookLoad(t)
    \/ \E t \in Threads : HookStore(t)
    \/ \E t \in Threads : FlushLoad(t)
    \/ \E t \in Threads : FlushStore(t)


(***************************************************************************)
(* The generator of the browser definitions.  The configuration has the   *)
(* sections chrome and mozilla (flavour -> platform -> directories) and    *)
(* other (family -> flavour -> platform -> directories).  An entry is one  *)
(* flavour on one platform; Go ranges over each map in an order of its     *)
(* own choosing, so the loops can reach the entries in any order that      *)
(* respects the nesting.                                                   *)
(***************************************************************************)
Platforms == {"linux", "darwin"}

\* the directories of one entry (base_dir, snap, flatpak)
PlatformCfgs == {[BaseDir |-> <<"~", "d1">>, Snap |-> <<"~", "d2">>,
                  Flatpak |-> <<"~", "ln">>],
                 [BaseDir |-> <<"~", "d2">>, Snap |-> <<>>, Flatpak |-> <<>>]}

\* where an entry stands in the document: section, family key (other
\* only), flavour, platform
EntryKeys ==
    [sec : {"chrome"}, fam : {ChromeBased}, flav : {"chrome", "brave"},
     plat : Platforms]
    \cup [sec : {"mozilla"}, fam : {Mozilla}, flav : {"firefox"},
          plat : Platforms]
    \cup [sec : {"other"}, fam : {ChromeBased, Qutebrowser},
          flav : {"chrome"}, plat : Platforms]

\* the configurations yaml.Unmarshal can give: a map has one value per key
BrowserConfigs ==
    {c \in SUBSET [key : EntryKeys, cfg : PlatformCfgs] :
        /\ Cardinality(c) <= MaxEntries
        /\ \A a \in c, b \in c : a.key = b.key => a = b}

\* func MozBrowser(flavour, base, snap, flat string) BrowserDef
MozBrowser(flavour, base, snap, flat) ==
    [Flavour |-> flavour, Family |-> Mozilla, BaseDir |-> base,
     SnapDir |-> snap, FlatpakDir |-> flat]

\* a ChromeBrowser that hands back the snap directory as the base directory
ChromeBrowserSnapAsBase(flavour, base, snap, flat) ==
    [Flavour |-> flavour, Family |-> ChromeBased, BaseDir |-> snap,
     SnapDir |-> snap, FlatpakDir |-> flat]

\* func ChromeBrowser(flavour, base, snap, flat string) BrowserDef
ChromeBrowser(flavour, base, snap, flat) ==
    [Flavour |-> flavour, Family |-> ChromeBased, BaseDir |-> base,
     SnapDir |-> snap, FlatpakDir |-> flat]

\* the BrowserDef the body of the innermost loop builds for an entry
LoopBody(e) ==
    IF e.key.sec = "chrome"
    THEN ChromeBrowser(e.key.flav, e.cfg.BaseDir, e.cfg.Snap, e.cfg.Flatpak)
    ELSE IF e.key.sec = "mozilla"
    THEN MozBrowser(e.key.flav, e.cfg.BaseDir, e.cfg.Snap, e.cfg.Flatpak)
    ELSE [Flavour |-> e.key.flav, Family |-> e.key.fam,
          BaseDir |-> e.cfg.BaseDir, SnapDir |-> e.cfg.Snap,
          FlatpakDir |-> e.cfg.Flatpak]

SectionRank(sec) ==
    IF sec = "chrome" THEN 1 ELSE IF sec = "mozilla" THEN 2 ELSE 3

\* the entries the loops can reach next: the chrome loop runs before the
\* mozilla loop and that before the other loop; a range over the platforms
\* of a flavour is finished before the next flavour is taken, and a range
\* over the flavours of a family before the next family
NextEntries(todo, last) ==
    LET first == {e \in todo : \A o \in todo :
                     SectionRank(e.key.sec) <= SectionRank(o.key.sec)}
        sameFlav == {e \in first : /\ last # <<>>
                                   /\ e.key.sec = last[1].sec
                                   /\ e.key.fam = last[1].fam
                                   /\ e.key.flav = last[1].flav}
        sameFam == {e \in first : /\ last # <<>>
                                  /\ e.key.sec = last[1].sec
                                  /\ e.key.fam = last[1].fam}
    IN  IF sameFlav # {} THEN sameFlav
        ELSE IF sameFam # {} THEN sameFam
        ELSE first

GenInit ==
    /\ genPhase = "idle"
    /\ genCfg = {}
    /\ genTodo = {}
    /\ genLast = <<>>
    /\ bCfgs = [p \in Platforms |-> <<>>]

\* generateBrowserConfs is called for a definition file: the file is read
\* and parsed, bCfgs is a fresh map
GenStart ==
    /\ genPhase = "idle"
    /\ \E c \in BrowserConfigs :
          /\ genCfg' = c
          /\ genTodo' = c
          /\ genPhase' = IF c = {} THEN "done" ELSE "running"
    /\ UNCHANGED <<genLast, bCfgs>>
    /\ UNCHANGED nonGenVars

\* one run of an innermost loop body:
\* bCfgs[platform(p)] = append(bCfgs[platform(p)], def)
GenStep ==
    /\ genPhase = "running"
    /\ \E e \in NextEntries(genTodo, genLast) :
          /\ bCfgs' = [bCfgs EXCEPT ![e.key.plat] = Append(@, LoopBody(e))]
          /\ genTodo' = genTodo \ {e}
          /\ genLast' = <<e.key>>
          /\ genPhase' = IF genTodo = {e} THEN "done" ELSE "running"
    /\ UNCHANGED genCfg
    /\ UNCHANGED nonGenVars

GenNext ==
    \/ GenStart
    \/ GenStep


Init ==
    /\ ClockInit
    /\ HashInit
    /\ DbInit
    /\ BrInit
    /\ RegInit
    /\ WatchInit
    /\ MergeInit
    /\ SyncInit
    /\ UpsertInit
    /\ DataInit
    /\ HookInit
    /\ GenInit

Next ==
    \/ ClockNext
    \/ HashNext
    \/ DbNext
    \/ BrNext
    \/ ExpandNext
    \/ RegNext
    \/ WatchNext
    \/ MergeNext
    \/ SyncNext
    \/ UpsertNext
    \/ DataNext
    \/ HookNext
    \/ GenNext

Spec == Init /\ [][Next]_vars

\* the clock alone
SpecClock == Init /\ [][ClockNext]_vars

\* the content hash alone
SpecHash == Init /\ [][HashNext]_vars

\* the DB objects and the sqlite drivers alone
SpecDb == Init /\ [][DbNext]_vars

\* path expansion and browser detection alone
SpecBrowsers == Init /\ [][BrNext]_vars

\* path expansion alone
SpecExpand == Init /\ [][ExpandNext]_vars

\* the registry alone
SpecRegistry == Init /\ [][RegNext]_vars

\* the watchers alone
SpecWatcher == Init /\ [][WatchNext]_vars

\* the merger alone
SpecMerger == Init /\ [][MergeNext]_vars

\* the data directory alone
SpecDataDir == Init /\ [][DataNext]_vars

\* the upserts alone
SpecUpsert == Init /\ [][UpsertNext]_vars

\* the goroutines on the backup-connection list alone
SpecBackupConns == Init /\ [][HookNext]_vars

\* the generator alone
SpecGenerator == Init /\ [][GenNext]_vars

\* the sync engine alone
SpecSync == Init /\ [][SyncNext]_vars

\* the sync engine with both devices exporting and importing for ever
SpecSyncLive ==
    /\ Init
    /\ [][SyncExchange]_vars
    /\ \A d \in Devices : WF_vars(Export(d)) /\ WF_vars(Import(d))

\* the watchers with time passing: a running timer keeps ticking and an
\* expired timer fires
SpecWatcherLive ==
    /\ Init
    /\ [][WatchNext]_vars
    /\ \A s \in Sources : WF_vars(TimerTick(s)) /\ WF_vars(StartReload(s))

\* C1: the clock is monotone under concurrency: no two tick calls return the
\* same value, a call that starts after another returned gets a strictly
\* greater value, and the version an upsert is about to write is strictly
\* greater than every version observed on the device before it started.
ClockMonotone ==
    /\ ~dupReturn
    /\ \A t \in Threads : tpc[t] = "ticked" =>
          /\ tret[t] > tseen[t]
          /\ tret[t] \notin returned
          /\ \A o \in Threads : (o # t /\ tpc[o] = "ticked") => tret[o] # tret[t]
          /\ turl[t] # NoUrl => \A u \in Urls : tret[t] > version[u]

\* two goroutines have ticked concurrently and an upsert is about to write
ClockMonotoneWitness ==
    /\ \A t \in Threads : tpc[t] = "ticked"
    /\ \E t \in Threads : turl[t] # NoUrl /\ version[turl[t]] > 0
    /\ ticks >= 1

\* C2: tick(previous) returns max(internal, previous) + 1 and leaves the
\* internal counter at the returned value; sqlTickClock returns that result.
TickIsMaxPlusOne ==
    lastTick # NoTick =>
        /\ lastTick.value =
              (IF lastTick.internal > lastTick.previous
               THEN lastTick.internal ELSE lastTick.previous) + 1
        /\ lastTick.after = lastTick.value
        /\ clock >= lastTick.value

\* a tick whose argument is ahead of the clock, and one whose argument is behind
TickIsMaxPlusOneWitness ==
    /\ lastTick # NoTick
    /\ lastTick.previous > lastTick.internal
    /\ \E t \in Threads : tpc[t] = "called" /\ tprev[t] < clock

SameTagSet(a, b) == {a[i] : i \in 1..Len(a)} = {b[i] : i \in 1..Len(b)}

\* C3: two bookmarks have the same xhsum if and only if their url, title,
\* tags string and description are equal; in particular two different field
\* tuples never yield the same "url+title+tags+description" input string.
HashIffFieldsEqual ==
    (sumA # NoSum /\ sumB # NoSum) =>
        /\ (sumA = sumB) <=>
              /\ bmA.url = bmB.url
              /\ bmA.title = bmB.title
              /\ JoinTags(bmA.tags) = JoinTags(bmB.tags)
              /\ bmA.desc = bmB.desc
        /\ (<<bmA.url, bmA.title, JoinTags(bmA.tags), bmA.desc>> #
               <<bmB.url, bmB.title, JoinTags(bmB.tags), bmB.desc>>)
             => XhsumInput(bmA.url, bmA.title, JoinTags(bmA.tags), bmA.desc) #
                XhsumInput(bmB.url, bmB.title, JoinTags(bmB.tags), bmB.desc)

\* C4: the content hash does not depend on the order in which the tags of a
\* bookmark are supplied: equal url, title, description and tag set give
\* equal xhsum.
HashIgnoresTagOrder ==
    (/\ sumA # NoSum /\ sumB # NoSum
     /\ bmA.url = bmB.url /\ bmA.title = bmB.title /\ bmA.desc = bmB.desc
     /\ SameTagSet(bmA.tags, bmB.tags))
    => sumA = sumB

\* C5: DB.Init on a regular-file database returns (nil, ErrVfsLocked) when
\* the lock checker reports the file locked or the open or ping fails with
\* SQLITE_BUSY; a lock checker failure and every other open error come back
\* as a DBError, never as ErrVfsLocked; and when the lock checker reports
\* locked or fails, no connection is opened and Handle stays nil.
InitReportsVfsLocked ==
    (initRes.called /\ initRes.type = DBTypeRegularFile) =>
        /\ (initRes.lock = "locked" \/ initRes.open = "busy"
               \/ initRes.ping = "busy")
             => (initRes.ret = "nil" /\ initRes.err = ErrVfsLocked)
        /\ (initRes.lock = "error" \/ initRes.open \in {"sqlerr", "err"}
               \/ initRes.ping \in {"sqlerr", "err"})
             => (initRes.ret = "nil" /\ initRes.err = DBError)
        /\ initRes.lock \in {"locked", "error"}
             => /\ initRes.handleAfter = "nil"
                /\ db[initRes.name].Handle = "nil"
                /\ ~initRes.opened
                /\ initRes.open = "notrun"
        /\ initRes.err = ErrVfsLocked
             => (initRes.lock = "locked" \/ initRes.open = "busy"
                   \/ initRes.ping = "busy")

\* an Init of the file database whose ping failed with SQLITE_BUSY
InitReportsVfsLockedWitness ==
    /\ initRes.called
    /\ initRes.type = DBTypeRegularFile
    /\ initRes.lock = "free"
    /\ initRes.ping = "busy"
    /\ initRes.err = ErrVfsLocked

\* C8: every open sqlite connection has xhash, tick_clock and fuzzy
\* registered, whichever registered driver opened it.
ConnsHaveCustomFuncs ==
    \A c \in sqlConns : {"xhash", "tick_clock", "fuzzy"} \subseteq c.funcs

\* a directory string names an existing directory: it can be expanded
\* (home directory known, expansion not empty) and what it expands to is a
\* directory, symbolic links followed
NamesDirectory(dir, E) ==
    LET x == ExpandEnv(dir, E.envV)
        q == IF x # <<>> /\ Head(x) = "~" THEN Home \o Tail(x) ELSE x
    IN  /\ dir # <<>>
        /\ E.homeOK
        /\ x # <<>>
        /\ Stat(q, E.fs) = "dir"

\* the effective base directory: flatpak, then snap, then base
EffectiveBaseDir(b, E) ==
    IF NamesDirectory(b.FlatpakDir, E) THEN b.FlatpakDir
    ELSE IF NamesDirectory(b.SnapDir, E) THEN b.SnapDir
    ELSE b.BaseDir

\* C6: Detect() returns true if and only if the effective base directory
\* (flatpak, then snap, then base) exists as a directory; it does not return
\* true when that path cannot be expanded or does not exist.  (Stated for
\* the calls that return.)
DetectIffBaseDirExists ==
    (brCall.op = "Detect" /\ brCall.res # Panic) =>
        ((brCall.res = "true") <=>
            NamesDirectory(EffectiveBaseDir(brDef, osEnv), osEnv))

\* C7: GetBaseDir returns FlatpakDir when it is non-empty and expands to an
\* existing directory, otherwise SnapDir when it is non-empty and expands to
\* an existing directory, otherwise BaseDir; ExpandBaseDir expands the
\* directory GetBaseDir selects.
BaseDirResolutionOrder ==
    /\ brCall.op = "GetBaseDir" =>
          brCall.res = [dir |-> EffectiveBaseDir(brDef, osEnv), err |-> "nil"]
    /\ brCall.op = "ExpandBaseDir" =>
          brCall.res = ExpandPath(<<EffectiveBaseDir(brDef, osEnv)>>, osEnv)

Registered == {DefinedBrowsers[i] : i \in 1..Len(DefinedBrowsers)}

MapRange(m) == {m[k] : k \in DOMAIN m}

\* the position of the last definition with this family and flavour
LastIndex(family, flavour) ==
    CHOOSE i \in 1..Len(DefinedBrowsers) :
        /\ DefinedBrowsers[i].Family = family
        /\ DefinedBrowsers[i].Flavour = flavour
        /\ \A j \in (i + 1)..Len(DefinedBrowsers) :
              ~(DefinedBrowsers[j].Family = family
                /\ DefinedBrowsers[j].Flavour = flavour)

AddedIsDefined ==
    regHist.added =>
        /\ regHist.b.Flavour \in DOMAIN Defined(DefinedBrowsers, regHist.b.Family)
        /\ Defined(DefinedBrowsers, regHist.b.Family)[regHist.b.Flavour]
             = regHist.b
        /\ Len(DefinedBrowsers) = Len(regHist.before) + 1
        /\ \A i \in 1..Len(regHist.before) :
              DefinedBrowsers[i] = regHist.before[i]

\* C9 as stated: after AddBrowserDef(b), Defined(b.Family) maps b.Flavour to
\* b, every earlier definition keeps its position, and Defined(f) returns
\* exactly the registered definitions whose Family is f, keyed by flavour.
DefinedReturnsAllOfFamily ==
    /\ AddedIsDefined
    /\ \A f \in Families :
          /\ MapRange(Defined(DefinedBrowsers, f))
               = {d \in Registered : d.Family = f}
          /\ \A k \in DOMAIN Defined(DefinedBrowsers, f) :
                Defined(DefinedBrowsers, f)[k].Flavour = k

\* C9 amended: after AddBrowserDef(b), Defined(b.Family) maps b.Flavour to b,
\* every earlier definition keeps its position, and Defined(f) maps each
\* flavour registered with family f to the last registered definition of
\* that family and flavour (an earlier one of the same flavour is shadowed).
DefinedReturnsLastOfFlavour ==
    /\ AddedIsDefined
    /\ \A f \in Families :
          /\ DOMAIN Defined(DefinedBrowsers, f)
               = {d.Flavour : d \in {e \in Registered : e.Family = f}}
          /\ \A k \in DOMAIN Defined(DefinedBrowsers, f) :
                Defined(DefinedBrowsers, f)[k]
                  = DefinedBrowsers[LastIndex(f, k)]

\* a definition was added whose flavour and family were registered before
\* with another base directory
DefinedReturnsLastOfFlavourWitness ==
    /\ regHist.added
    /\ \E i \in 1..Len(regHist.before) :
          /\ regHist.before[i].Flavour = regHist.b.Flavour
          /\ regHist.before[i].Family = regHist.b.Family
          /\ regHist.before[i] # regHist.b

\* C10: within one source reloads are serialized: at most one parse of a
\* source is in flight, and reload N+1 starts only after reload N has
\* completed or failed; reloads of different sources may overlap.
ReloadsSerialized ==
    \A s \in Sources :
        /\ parses[s] \in {0, 1}
        /\ started[s] = finished[s] + parses[s]
        /\ (parses[s] = 1) <=> (wstate[s] = "Reloading")

\* two sources reload at the same time, one of them for the second time
ReloadsSerializedWitness ==
    /\ \A s \in Sources : parses[s] = 1
    /\ \E s \in Sources : started[s] = 2 /\ finished[s] = 1

\* what holds of the burst of a source in every state: an event leaves the
\* source Debouncing with the full delay on its timer and starts no reload;
\* the debounce timeout starts at most one reload per burst, and only after
\* the full delay has passed since the last event; every further reload of
\* the burst is a retry the backoff timer started after a transient error
BurstDebounced(s) ==
    /\ wstate[s] = "Debouncing" =>
          /\ burst[s].ev >= 1
          /\ burst[s].deb = 0 /\ burst[s].retry = 0
          /\ wtimer[s] + quiet[s] = DebounceTicks
    /\ burst[s].deb <= 1
    /\ burst[s].deb = 1 =>
          /\ burst[s].ev >= 1
          /\ burst[s].startQuiet = DebounceTicks
    /\ burst[s].retry <= burst[s].transient
    /\ burst[s].retry > 0 => burst[s].deb = 1

ExpectedIndex ==
    [u \in UNION {DOMAIN mtree[s] : s \in Sources} |-> UnionTags(mtree, u)]

\* C12: merger correctness: once no batch is pending the URL Index holds
\* exactly the urls of the sources' current trees, each once, with the union
\* of the tags of its current contributors, whatever the order in which the
\* batches of the sources arrived.
MergerCorrect ==
    mqueue = <<>> => uindex = ExpectedIndex

\* both sources contribute a url with different tags, one source has
\* dropped a tag of it and another url altogether, and the merger is done
MergerCorrectWitness ==
    /\ mqueue = <<>>
    /\ mbatch # <<>>
    /\ \E u \in Urls :
          /\ Contributors(mtree, u) = Sources
          /\ mtree["firefox"][u] # mtree["chrome"][u]
          /\ uindex[u] = Tags
    /\ \E i \in 1..Len(mbatch) : mbatch[i].op = "Delete"

\* C13: sync import is idempotent: a record imported twice in a row leaves
\* the store (rows, xhsum, version, node_id, flags) as one import left it.
SyncImportIdempotent ==
    lastImp.again => sstore[lastImp.dev] = lastImp.before

\* a record that replaced a local row of another content has been
\* delivered a second time
SyncImportIdempotentWitness ==
    /\ lastImp.again
    /\ lastImp.local # NoRec
    /\ lastImp.local.xhsum # lastImp.rec.xhsum
    /\ sstore[lastImp.dev][lastImp.url] = lastImp.rec

\* C14: on import of a record whose url exists locally with another xhsum
\* the row with the larger (version, node_id) is kept, and afterwards the
\* local clock is at least the incoming version.
SyncLargerWins ==
    (/\ lastImp.dev # "none"
     /\ ~lastImp.again
     /\ lastImp.local # NoRec
     /\ lastImp.local.xhsum # lastImp.rec.xhsum) =>
        /\ sstore[lastImp.dev][lastImp.url] =
              (IF \/ lastImp.rec.version > lastImp.local.version
                  \/ /\ lastImp.rec.version = lastImp.local.version
                     /\ lastImp.rec.node_id = "B"
                     /\ lastImp.local.node_id = "A"
               THEN lastImp.rec ELSE lastImp.local)
        /\ sclock[lastImp.dev] >= lastImp.rec.version

\* the incoming record was ahead of the local clock and replaced a local
\* row of another content, while the other url is the same on both devices
SyncLargerWinsWitness ==
    /\ lastImp.dev # "none"
    /\ ~lastImp.again
    /\ lastImp.local # NoRec
    /\ lastImp.local.xhsum # lastImp.rec.xhsum
    /\ lastImp.rec.version > lastImp.local.version
    /\ lastImp.rec.version > SetMax({lastImp.before[u].version : u \in Urls})
    /\ sstore[lastImp.dev][lastImp.url] = lastImp.rec
    /\ \E u \in Urls :
          /\ u # lastImp.url
          /\ sstore["A"][u] # NoRec
          /\ sstore["A"][u] = sstore["B"][u]

\* nothing is in flight and nothing is left to export
Quiescent ==
    \A d \in Devices :
        /\ inflight[d] = <<>>
        /\ ExportBatch(sstore[d], watermark[d]) = <<>>

\* the store of a device projected to (url, xhsum)
Projected(d) ==
    {<<u, sstore[d][u].xhsum>> : u \in {v \in Urls : sstore[d][v] # NoRec}}

UpsertKeepsAndBumps ==
    (lastUp.done /\ lastUp.old # NoRow) =>
        /\ lastUp.bm.title = <<>> => urow.title = lastUp.old.title
        /\ urow.desc = (IF lastUp.bm.desc # <<>>
                        THEN lastUp.bm.desc ELSE lastUp.old.desc)
        /\ urow.xhsum =
              SprintfD(ChecksumString64(
                  lastUp.bm.url \o <<"+">> \o urow.title \o <<"+">> \o
                  urow.tags \o <<"+">> \o urow.desc))
        /\ urow.version =
              (IF lastUp.clk > lastUp.old.version
               THEN lastUp.clk ELSE lastUp.old.version) + 1
        /\ urow.version > lastUp.old.version

\* an upsert with an empty title and a new description over a row that has
\* a title, with the clock ahead of the row
UpsertKeepsAndBumpsWitness ==
    /\ lastUp.done
    /\ lastUp.old # NoRow
    /\ lastUp.old.title # <<>>
    /\ lastUp.bm.title = <<>>
    /\ lastUp.bm.desc # <<>>
    /\ lastUp.bm.desc # lastUp.old.desc
    /\ lastUp.clk > lastUp.old.version
    /\ urow.xhsum # lastUp.old.xhsum

\* C17: the default database path is <XDG_DATA_HOME>/gosuki/gosuki.db when
\* XDG_DATA_HOME is non-empty and <home>/.local/share/gosuki/gosuki.db
\* otherwise; GetDataDir returns an error, and no path, only when
\* XDG_DATA_HOME is empty and the home directory cannot be determined.
DefaultDbPath ==
    /\ dataCall.op = "init" =>
          IF dataEnv.xdg # <<>>
          THEN /\ dataCall.res.err = "nil"
               /\ dataCall.res.path = dataEnv.xdg \o <<"gosuki", "gosuki.db">>
          ELSE IF dataEnv.home # <<>>
          THEN /\ dataCall.res.err = "nil"
               /\ dataCall.res.path =
                     dataEnv.home \o <<".local", "share", "gosuki", "gosuki.db">>
          ELSE dataCall.res.err # "nil"
    /\ dataCall.op = "GetDataDir" =>
          /\ (dataCall.res.err # "nil") <=>
                (dataEnv.xdg = <<>> /\ dataEnv.home = <<>>)
          /\ dataCall.res.err # "nil" => dataCall.res.dir = <<>>

\* init() ran with XDG_DATA_HOME and HOME both set and took the former
DefaultDbPathWitness ==
    /\ dataCall.op = "init"
    /\ dataEnv.xdg # <<>>
    /\ dataEnv.home # <<>>
    /\ dataCall.res.path = <<"X", "data", "gosuki", "gosuki.db">>

\* C18: flushSqliteCon(con) closes con and removes the entry of that
\* connection from _sql3BackupConns and no other: after any backup-driver
\* opens and flushes the list holds exactly the tracked connections that
\* have not been flushed, each once, and a flush of the empty list does not
\* crash.
FlushRemovesOwnEntry ==
    /\ ~flushHist.panic
    /\ {sql3BackupConns[i] : i \in 1..Len(sql3BackupConns)} =
          {t.id : t \in {c \in flushHist.tracked :
                            c.owner \notin flushHist.flushed}}
    /\ \A i, j \in 1..Len(sql3BackupConns) :
          i # j => sql3BackupConns[i] # sql3BackupConns[j]

\* the file system with nothing in it
NoFiles == [p \in FsPaths |-> [kind |-> "none"]]

\* C20: ExpandPath and ExpandOnly expand alike and differ only in symlink
\* resolution: when ExpandOnly returns a path p, ExpandPath on the same
\* arguments returns an error or the symlink-resolved form of p, and
\* ExpandOnly neither resolves symlinks nor needs the path to exist (its
\* result is what it returns on an empty file system).
ExpandDifferOnlyInSymlinks ==
    /\ (exCall.op = "ExpandPath" /\ exCall.only.err = "nil") =>
          \/ exCall.res.err = "err"
          \/ /\ exCall.res.err = "nil"
             /\ exCall.res.path =
                   (IF osEnv.fs[<<"H", "ln">>].kind = "link"
                       /\ exCall.only.path = <<"H", "ln">>
                    THEN osEnv.fs[<<"H", "ln">>].target
                    ELSE exCall.only.path)
    /\ exCall.op = "ExpandOnly" =>
          exCall.res = ExpandOnly(exCall.args, [osEnv EXCEPT !.fs = NoFiles])

\* ExpandOnly returned the path of a symbolic link and ExpandPath, called
\* next with the same two-part argument, returned the link's target
ExpandDifferOnlyInSymlinksWitness ==
    /\ exCall.op = "ExpandPath"
    /\ Len(exCall.args) = 2
    /\ exCall.only.err = "nil"
    /\ exCall.only.path = <<"H", "ln">>
    /\ exCall.res.err = "nil"
    /\ exCall.res.path = <<"H", "d2">>

\* C19: MkDir(dir) returns an error if dir does not exist and cannot be
\* created, or if dir exists but is not writable by the current user (a
\* path that cannot be looked up or that is a regular file is counted with
\* these); in every other case it returns nil and dir exists afterwards.
MkDirAsDocumented ==
    dataCall.op = "MkDir" =>
        LET b == dataCall.before
        IN  IF ~b.search \/ ~b.write \/ b.kind = "file"
            THEN dataCall.err # "nil"
            ELSE dataCall.err = "nil" /\ dataFs.kind = "dir"

(***************************************************************************)
(* C21: DB.Init returns success (db, nil) only when db.Handle is a         *)
(* connection that was opened, answered Ping and has not been closed       *)
(* since: after an Init that failed during Ping, or after Close, the next  *)
(* Init does not answer with the stale handle.                             *)
(***************************************************************************)
InitSuccessHasLiveHandle ==
    (initRes.called /\ initRes.ret = "db" /\ initRes.err = "nil")
        => initRes.liveAfter = "live"

(***************************************************************************)
(* C22: MkDir on an existing writable directory is a pure probe: every     *)
(* file that was in the directory before the call, one named "test"        *)
(* included, is there with the same content after it, and no new file      *)
(* remains.                                                                *)
(***************************************************************************)
MkDirIsPureProbe ==
    (/\ dataCall.op = "MkDir"
     /\ dataCall.before.kind = "dir"
     /\ dataCall.before.search
     /\ dataCall.before.write)
        => /\ dataFs.test = dataCall.before.test
           /\ dataFs.data = dataCall.before.data

(***************************************************************************)
(* C23: path expansion reports bad input as an error value and never       *)
(* crashes: ExpandPath, ExpandOnly, BrowserDef.ExpandBaseDir and           *)
(* BrowserDef.Detect return normally for every argument, an empty string,  *)
(* a path of unset variables and an empty BaseDir included.                *)
(***************************************************************************)
ExpansionNeverPanics ==
    /\ exCall.op \in {"ExpandPath", "ExpandOnly"} => exCall.res.err # Panic
    /\ brCall.op = "ExpandBaseDir" => brCall.res.err # Panic
    /\ brCall.op = "Detect" => brCall.res # Panic

(***************************************************************************)
(* C24: the backup-connection list loses no entry under concurrency: once  *)
(* the goroutines have finished their statements, every connection that    *)
(* was opened through sqlite_hook_backup and not flushed is in              *)
(* _sql3BackupConns exactly once.                                          *)
(***************************************************************************)
BackupListComplete ==
    (\A t \in Threads : hookG[t] = HookIdle)
        => \A c \in hookHist.opened \ hookHist.flushed :
              Cardinality({i \in DOMAIN sql3BackupConns :
                              sql3BackupConns[i] = c}) = 1

\* the BrowserDef the configuration asks for with an entry: its flavour and
\* directories, and the family of its section
WantedDef(e) ==
    [Flavour |-> e.key.flav,
     Family |-> IF e.key.sec = "chrome" THEN ChromeBased
                ELSE IF e.key.sec = "mozilla" THEN Mozilla
                ELSE e.key.fam,
     BaseDir |-> e.cfg.BaseDir, SnapDir |-> e.cfg.Snap,
     FlatpakDir |-> e.cfg.Flatpak]

\* how often a definition stands in a list
Occurrences(list, d) == Cardinality({i \in DOMAIN list : list[i] = d})

====
